---- MODULE Spec2Model ----
(***************************************************************************)
(* Model of the XBRL reshaping engine of dart-xbrl-crawler                 *)
(* (src/xbrl_processor.py, class XBRLProcessor).                           *)
(*                                                                         *)
(* One filing is processed by process_xbrl_file_with_report_info:          *)
(*   extract_financial_data -> convert_to_pivot_format (BS, then CIS)      *)
(*   -> improve_hierarchy_structure -> sort_values -> save_to_parquet.     *)
(*                                                                         *)
(* Representation.  A Python string that the code inspects character by    *)
(* character (column keys, period strings, report titles) is a sequence    *)
(* of one-character strings.  A Hangul syllable is written as its          *)
(* romanisation and counts as ONE character ("yeon","gyeol" is the         *)
(* two-character marker of consolidated statements).  Labels that the      *)
(* code only compares for equality are TLA+ strings; the Korean labels     *)
(* are given ASCII names below.                                            *)
(***************************************************************************)
EXTENDS Integers, Sequences, FiniteSets, TLC

(***************************************************************************)
(* Bounds of the model.                                                    *)
(***************************************************************************)
\* largest number of rows of one statement matrix
MaxRows == 3
\* largest number of data columns of one statement matrix
MaxDataCols == 2

(***************************************************************************)
(* Labels the code compares for equality.                                  *)
(***************************************************************************)
\* '자산 [개요]', '부채 [개요]', '자본 [개요]'
AssetsOverview == "assets [overview]"
LiabilitiesOverview == "liabilities [overview]"
EquityOverview == "equity [overview]"
\* '자산총계', '부채총계', '자본총계'
AssetsTotal == "assets-total"
LiabilitiesTotal == "liabilities-total"
EquityTotal == "equity-total"
\* '자산', '부채', '자본'
Assets == "assets"
Liabilities == "liabilities"
Equity == "equity"
\* '자본과부채총계'
EquityAndLiabilitiesTotal == "equity-and-liabilities-total"
\* fs_type values '연결' and '별도'
FsConsolidated == "consolidated"
FsSeparate == "separate"
\* a null (None / NaN) label: differs from '' and from every label
NullLabel == "<null>"

(***************************************************************************)
(* Characters and strings.                                                 *)
(***************************************************************************)
Digits == {"0", "1", "2", "3", "4", "5", "6", "7", "8", "9"}

\* \d of the re module
IsDigit(c) == c \in Digits

AllDigits(s) == \A i \in 1..Len(s) : IsDigit(s[i])

LowerCase ==
    <<"a", "b", "c", "d", "e", "f", "g", "h", "i", "j", "k", "l", "m",
      "n", "o", "p", "q", "r", "s", "t", "u", "v", "w", "x", "y", "z">>

\* code points, for the comparison of strings by sort_values
CharCode(c) ==
    CASE c = " " -> 32
      [] c = "'" -> 39
      [] c = "(" -> 40
      [] c = ")" -> 41
      [] c = "," -> 44
      [] c = "-" -> 45
      [] c = "." -> 46
      [] c = "0" -> 48
      [] c = "1" -> 49
      [] c = "2" -> 50
      [] c = "3" -> 51
      [] c = "4" -> 52
      [] c = "5" -> 53
      [] c = "6" -> 54
      [] c = "7" -> 55
      [] c = "8" -> 56
      [] c = "9" -> 57
      [] c = "B" -> 66
      [] c = "C" -> 67
      [] c = "H" -> 72
      [] c = "I" -> 73
      [] c = "Q" -> 81
      [] c = "S" -> 83
      [] c = "_" -> 95
      [] c = "~" -> 126
      [] c = "byeol" -> 48324
      [] c = "do" -> 46020
      [] c = "yeon" -> 50672
      [] c = "gyeol" -> 44208
      [] c = "jae" -> 51116
      [] c = "mu" -> 47924
      [] c = "je" -> 51228
      [] c = "pyo" -> 54364
      [] c = "bi" -> 48708
      [] c = "go" -> 44256
      [] OTHER -> IF \E i \in 1..Len(LowerCase) : LowerCase[i] = c
                  THEN 96 + (CHOOSE i \in 1..Len(LowerCase) : LowerCase[i] = c)
                  ELSE 0

\* s < t for Python strings
RECURSIVE StrLess(_, _)
StrLess(s, t) ==
    IF Len(t) = 0 THEN FALSE
    ELSE IF Len(s) = 0 THEN TRUE
    ELSE IF CharCode(Head(s)) # CharCode(Head(t))
         THEN CharCode(Head(s)) < CharCode(Head(t))
         ELSE StrLess(Tail(s), Tail(t))

\* pat in s
Contains(s, pat) ==
    \E i \in 1..(Len(s) - Len(pat) + 1) : SubSeq(s, i, i + Len(pat) - 1) = pat

StartsWith(s, pat) == Len(s) >= Len(pat) /\ SubSeq(s, 1, Len(pat)) = pat

EndsWith(s, pat) ==
    Len(s) >= Len(pat) /\ SubSeq(s, Len(s) - Len(pat) + 1, Len(s)) = pat

\* s.replace(c, '') for a one-character c
RECURSIVE RemoveChar(_, _)
RemoveChar(s, c) ==
    IF Len(s) = 0 THEN <<>>
    ELSE IF Head(s) = c THEN RemoveChar(Tail(s), c)
         ELSE <<Head(s)>> \o RemoveChar(Tail(s), c)

\* s.split(c) for a one-character c: the list of the parts
RECURSIVE SplitAcc(_, _, _)
SplitAcc(s, c, cur) ==
    IF Len(s) = 0 THEN <<cur>>
    ELSE IF Head(s) = c THEN <<cur>> \o SplitAcc(Tail(s), c, <<>>)
         ELSE SplitAcc(Tail(s), c, Append(cur, Head(s)))

Split(s, c) == SplitAcc(s, c, <<>>)

\* f"{d[:4]}-{d[4:6]}-{d[6:8]}" (slices are clipped to the string)
Slice(s, m, n) == SubSeq(s, m, IF n <= Len(s) THEN n ELSE Len(s))

FormatDate(d) ==
    Slice(d, 1, 4) \o <<"-">> \o Slice(d, 5, 6) \o <<"-">> \o Slice(d, 7, 8)

\* f"{start} ~ {end}"
FormatRange(start_date, end_date) ==
    FormatDate(start_date) \o <<" ", "~", " ">> \o FormatDate(end_date)

\* re.match(r'^\d{8}$', s); the keys of the model hold no newline
MatchDate8(s) == Len(s) = 8 /\ AllDigits(s)

\* re.match(r'^\d{8}-\d{8}$', s)
MatchDateRange(s) ==
    /\ Len(s) = 17
    /\ AllDigits(SubSeq(s, 1, 8))
    /\ s[9] = "-"
    /\ AllDigits(SubSeq(s, 10, 17))

\* re.match(r'\d{8}', s): a match at the start, anything may follow
MatchDate8Prefix(s) == Len(s) >= 8 /\ AllDigits(SubSeq(s, 1, 8))

(***************************************************************************)
(* Python values used as column keys: a str, a tuple, or something else    *)
(* (an int); None for "no column".                                         *)
(***************************************************************************)
Str(s) == [typ |-> "str", s |-> s, items |-> <<>>]
Tup(items) == [typ |-> "tuple", s |-> <<>>, items |-> items]
IntKey == [typ |-> "int", s |-> <<>>, items |-> <<>>]
None == [typ |-> "none", s |-> <<>>, items |-> <<>>]

\* the keys of columns_info
F_order_no == <<"o", "r", "d", "e", "r", "_", "n", "o">>
F_concept_id == <<"c", "o", "n", "c", "e", "p", "t", "_", "i", "d">>
F_label_ko == <<"l", "a", "b", "e", "l", "_", "k", "o">>
F_label_en == <<"l", "a", "b", "e", "l", "_", "e", "n">>
F_class0 == <<"c", "l", "a", "s", "s", "0">>
F_class1 == <<"c", "l", "a", "s", "s", "1">>
F_class2 == <<"c", "l", "a", "s", "s", "2">>
F_class3 == <<"c", "l", "a", "s", "s", "3">>

FieldNames ==
    {F_order_no, F_concept_id, F_label_ko, F_label_en,
     F_class0, F_class1, F_class2, F_class3}

\* the columns add_metadata_to_dataframe inserts besides order_no
M_yyyy == <<"y", "y", "y", "y">>
M_month == <<"m", "o", "n", "t", "h">>
M_corp_code == <<"c", "o", "r", "p", "_", "c", "o", "d", "e">>
M_corp_name == <<"c", "o", "r", "p", "_", "n", "a", "m", "e">>
M_report_type == <<"r", "e", "p", "o", "r", "t", "_", "t", "y", "p", "e">>

MetaNames == {M_yyyy, M_month, M_corp_code, M_corp_name, M_report_type}

\* '연결' and '별도', '연결재무제표' and '별도재무제표'
YeonGyeol == <<"yeon", "gyeol">>
ByeolDo == <<"byeol", "do">>
ConsolidatedFS == <<"yeon", "gyeol", "jae", "mu", "je", "pyo">>
SeparateFS == <<"byeol", "do", "jae", "mu", "je", "pyo">>

(***************************************************************************)
(* Cell values of a DataFrame: None/NaN, a number, a str that float()      *)
(* parses, or any other str.                                               *)
(***************************************************************************)
NA == [kind |-> "null", n |-> 0, s |-> ""]
Num(n) == [kind |-> "num", n |-> n, s |-> ""]
NumStr(n) == [kind |-> "numstr", n |-> n, s |-> ""]
Txt(s) == [kind |-> "str", n |-> 0, s |-> s]

\* pd.notna(value)
NotNa(value) == value.kind # "null"

\* float(value) returns (it raises ValueError for any other str)
FloatOk(value) == value.kind \in {"num", "numstr"}

\* float(value)
FloatOf(value) == value.n

\* the value of a label cell as the record keeps it
LabelOf(value) == IF value.kind = "null" THEN NullLabel ELSE value.s

(***************************************************************************)
(* DataFrames: [columns, rows], a row being the sequence of the cells in   *)
(* the order of the columns.  multi tells a MultiIndex of 2-tuples from a  *)
(* flat Index.                                                             *)
(***************************************************************************)
EmptyDataFrame == [columns |-> <<>>, rows |-> <<>>, multi |-> FALSE]

\* df.empty
IsEmpty(df) == Len(df.rows) = 0 \/ Len(df.columns) = 0

ColIndex(df, col) == CHOOSE j \in 1..Len(df.columns) : df.columns[j] = col

\* row[col] of the row with index i - 1
CellAt(df, i, col) == df.rows[i][ColIndex(df, col)]

(***************************************************************************)
(* parse_period_info                                                       *)
(***************************************************************************)
\* re.search(r"'(\d{8})'", s)
QuotedDateAt(s, i) ==
    /\ i + 9 <= Len(s)
    /\ s[i] = "'"
    /\ AllDigits(SubSeq(s, i + 1, i + 8))
    /\ s[i + 9] = "'"

HasQuotedDate(s) == \E i \in 1..Len(s) : QuotedDateAt(s, i)

QuotedDate(s) ==
    LET i == CHOOSE k \in 1..Len(s) :
                 QuotedDateAt(s, k) /\ \A m \in 1..(k - 1) : ~QuotedDateAt(s, m)
    IN  SubSeq(s, i + 1, i + 8)

\* re.search(r"'(연결재무제표|별도재무제표)'", s): the group, <<>> when no match
QuotedFsType(s) ==
    LET c == <<"'">> \o ConsolidatedFS \o <<"'">>
        p == <<"'">> \o SeparateFS \o <<"'">>
        At(pat, i) == i + Len(pat) - 1 <= Len(s) /\ SubSeq(s, i, i + Len(pat) - 1) = pat
        Hit(i) == At(c, i) \/ At(p, i)
    IN  IF \E i \in 1..Len(s) : Hit(i)
        THEN LET i == CHOOSE k \in 1..Len(s) : Hit(k) /\ \A m \in 1..(k - 1) : ~Hit(m)
             IN  IF At(c, i) THEN ConsolidatedFS ELSE SeparateFS
        ELSE <<>>

\* the (period, fs_type) pair returned for the str col_str
parse_period_info_fallback(col_str) ==
    <<col_str,
      IF Contains(col_str, YeonGyeol) THEN FsConsolidated
      ELSE IF Contains(col_str, ByeolDo) THEN FsSeparate
      ELSE FsConsolidated>>

parse_period_info(col_str) ==
    IF StartsWith(col_str, <<"(">>) /\ EndsWith(col_str, <<")">>)
    THEN IF HasQuotedDate(col_str)
         THEN <<FormatDate(QuotedDate(col_str)),
                IF Contains(QuotedFsType(col_str), YeonGyeol)
                THEN FsConsolidated ELSE FsSeparate>>
         ELSE parse_period_info_fallback(col_str)
    ELSE IF MatchDate8Prefix(col_str)
    THEN <<FormatDate(col_str), FsConsolidated>>
    ELSE IF Contains(col_str, <<"-">>) /\ Len(RemoveChar(col_str, "-")) = 16
    THEN LET parts == Split(col_str, "-")
         IN  IF Len(parts) = 2 /\ Len(parts[1]) = 8 /\ Len(parts[2]) = 8
             THEN <<FormatRange(parts[1], parts[2]), FsConsolidated>>
             ELSE parse_period_info_fallback(col_str)
    ELSE parse_period_info_fallback(col_str)

(***************************************************************************)
(* analyze_dataframe_structure                                             *)
(***************************************************************************)
\* one iteration of the loop over df.columns
\* a column mapped to a fixed field kept as a data column too
AnalyzeColumn_FieldAlsoData(acc, col) ==
    IF col.typ = "tuple" /\ Len(col.items) = 2
    THEN LET column_type == col.items[2]
         IN  IF column_type.typ = "str" /\ column_type.s \in FieldNames
             THEN [acc EXCEPT !.columns_info[column_type.s] = col,
                              !.data_columns = Append(@, col)]
             ELSE [acc EXCEPT !.data_columns = Append(@, col)]
    ELSE IF col.typ = "str" /\ col.s \notin MetaNames
    THEN IF col.s \in FieldNames
         THEN [acc EXCEPT !.columns_info[col.s] = col,
                          !.data_columns = Append(@, col)]
         ELSE [acc EXCEPT !.data_columns = Append(@, col)]
    ELSE acc

\* lines 473-498: one turn of the loop over df.columns
AnalyzeColumn(acc, col) ==
    IF col.typ = "tuple" /\ Len(col.items) = 2
    THEN LET column_type == col.items[2]
         IN  IF column_type.typ = "str" /\ column_type.s \in FieldNames
             THEN [acc EXCEPT !.columns_info[column_type.s] = col]
             ELSE [acc EXCEPT !.data_columns = Append(@, col)]
    ELSE IF col.typ = "str" /\ col.s \notin MetaNames
    THEN IF col.s \in FieldNames
         THEN [acc EXCEPT !.columns_info[col.s] = col]
         ELSE [acc EXCEPT !.data_columns = Append(@, col)]
    ELSE acc

RECURSIVE AnalyzeColumns(_, _)
AnalyzeColumns(acc, columns) ==
    IF Len(columns) = 0 THEN acc
    ELSE AnalyzeColumns(AnalyzeColumn(acc, Head(columns)), Tail(columns))

analyze_dataframe_structure(df) ==
    AnalyzeColumns([columns_info |-> [f \in FieldNames |-> None],
                    data_columns |-> <<>>],
                   df.columns)


(***************************************************************************)
(* extract_metadata_from_xbrl: the reporting year and month                *)
(***************************************************************************)
\* re.match(r'\d{8}-\d{8}', s): a match at the start
MatchDateRangePrefix(s) == Len(s) >= 17 /\ MatchDateRange(SubSeq(s, 1, 17))

\* str(col[0]) if isinstance(col, tuple) else str(col), for keys of strs
PeriodColStr(col) ==
    IF col.typ = "tuple" THEN (IF Len(col.items) > 0 THEN col.items[1].s ELSE <<>>)
    ELSE col.s

\* the [yyyy, month] read from the columns of get_period_information()
ExtractYearMonth(period_columns) ==
    LET date_columns == SelectSeq(period_columns, LAMBDA c : c.typ \in {"str", "tuple"})
        Hit(k) == MatchDateRangePrefix(PeriodColStr(date_columns[k]))
    IN  IF \E k \in 1..Len(date_columns) : Hit(k)
        THEN LET k == CHOOSE m \in 1..Len(date_columns) :
                          Hit(m) /\ \A j \in 1..(m - 1) : ~Hit(j)
                 end_date == Split(PeriodColStr(date_columns[k]), "-")[2]
             IN  IF Len(end_date) = 8
                 THEN [yyyy |-> Slice(end_date, 1, 4), month |-> Slice(end_date, 5, 6)]
                 ELSE [yyyy |-> <<>>, month |-> <<>>]
        ELSE [yyyy |-> <<>>, month |-> <<>>]

(***************************************************************************)
(* add_metadata_to_dataframe                                               *)
(***************************************************************************)
\* the key df.insert gives a column named name: a MultiIndex pads the name
InsertedKey(df, name) ==
    IF df.multi THEN Tup(<<Str(name), Str(<<>>)>>) ELSE Str(name)

DigitValue(c) == CharCode(c) - 48

RECURSIVE ParseInt(_)
ParseInt(s) ==
    IF Len(s) = 0 THEN 0
    ELSE 10 * ParseInt(SubSeq(s, 1, Len(s) - 1)) + DigitValue(s[Len(s)])

\* the cell holding the str s of digits (float() parses it) or another str
StrCell(s) == IF Len(s) > 0 /\ AllDigits(s) THEN NumStr(ParseInt(s)) ELSE Txt("")

add_metadata_to_dataframe(df, metadata, report_type) ==
    IF IsEmpty(df) THEN df
    ELSE [columns |-> <<InsertedKey(df, F_order_no), InsertedKey(df, M_yyyy),
                        InsertedKey(df, M_month), InsertedKey(df, M_corp_code),
                        InsertedKey(df, M_corp_name), InsertedKey(df, M_report_type)>>
                      \o df.columns,
          rows |-> [i \in 1..Len(df.rows) |->
                       <<Num(i), StrCell(metadata.yyyy), StrCell(metadata.month),
                         StrCell(metadata.corp_code), StrCell(metadata.corp_name),
                         Txt(report_type)>> \o df.rows[i]],
          multi |-> df.multi]

(***************************************************************************)
(* convert_to_pivot_format: the loop over the rows and the data columns    *)
(***************************************************************************)
\* the check of line 584 left out
CellHasAmount_NoZeroCheck(value) == NotNa(value) /\ FloatOk(value)

\* lines 581-584: the cell is defined, float() accepts it, and it is not 0
CellHasAmount(value) == NotNa(value) /\ FloatOk(value) /\ FloatOf(value) # 0

\* the two patterns of line 591 left out
IsDateToken_AnyStr(date_str) == date_str.typ = "str"

\* lines 590-591: the date token of a 2-tuple key
IsDateToken(date_str) ==
    date_str.typ = "str" /\ (MatchDate8(date_str.s) \/ MatchDateRange(date_str.s))

\* lines 586-622: the key is one the loop makes a record for
KeyIsPivoted(col) ==
    IF col.typ = "tuple" /\ Len(col.items) = 2
    THEN /\ IsDateToken(col.items[1])
         \* '연결' in fs_type_str raises TypeError for an int
         /\ LET fs_info == col.items[2]
            IN  ~(fs_info.typ = "tuple" /\ Len(fs_info.items) > 0
                  /\ fs_info.items[1].typ \notin {"str", "tuple"})
    ELSE col.typ = "str" /\ col.s \notin MetaNames

\* the scope without a label taken as the separate statements
FsTypeOfTuple_DefaultSeparate(fs_info) ==
    IF fs_info.typ = "tuple" /\ Len(fs_info.items) > 0
       /\ fs_info.items[1].typ = "str" /\ Contains(fs_info.items[1].s, YeonGyeol)
    THEN FsConsolidated ELSE FsSeparate

\* lines 595-600
FsTypeOfTuple(fs_info) ==
    IF fs_info.typ = "tuple" /\ Len(fs_info.items) > 0
    THEN LET fs_type_str == fs_info.items[1]
             has == IF fs_type_str.typ = "str"
                    THEN Contains(fs_type_str.s, YeonGyeol)
                    ELSE \E k \in 1..Len(fs_type_str.items) :
                             fs_type_str.items[k] = Str(YeonGyeol)
         IN  IF has THEN FsConsolidated ELSE FsSeparate
    ELSE FsConsolidated

\* a range formatted as its start date
PeriodOfToken_StartOnly(date_str) == FormatDate(date_str)

\* lines 602-611
PeriodOfToken(date_str) ==
    IF Contains(date_str, <<"-">>) /\ Len(RemoveChar(date_str, "-")) = 16
    THEN LET parts == Split(date_str, "-")
         IN  FormatRange(parts[1], parts[2])
    ELSE IF Len(date_str) = 8 THEN FormatDate(date_str)
    ELSE date_str

\* the (period, fs_type) pair of a pivoted key
DecodeKey(col) ==
    IF col.typ = "tuple"
    THEN <<PeriodOfToken(col.items[1].s), FsTypeOfTuple(col.items[2])>>
    ELSE parse_period_info(col.s)

\* lines 546-553: a fixed field of the row with index i - 1
FieldCell(df, columns_info, i, f) ==
    IF columns_info[f] # None THEN CellAt(df, i, columns_info[f]) ELSE Txt("")

\* the record appended to converted_data for row i and data column col;
\* row and col are kept with the record as the history of the cell it
\* came from
PivotRecord(df, metadata, columns_info, i, col) ==
    [order_no |-> IF columns_info[F_order_no] # None
                  THEN CellAt(df, i, columns_info[F_order_no]).n ELSE i,
     yyyy |-> metadata.yyyy,
     month |-> metadata.month,
     report_type |-> metadata.report_type,
     concept_id |-> LabelOf(FieldCell(df, columns_info, i, F_concept_id)),
     label_ko |-> LabelOf(FieldCell(df, columns_info, i, F_label_ko)),
     class1 |-> LabelOf(FieldCell(df, columns_info, i, F_class1)),
     class2 |-> LabelOf(FieldCell(df, columns_info, i, F_class2)),
     class3 |-> LabelOf(FieldCell(df, columns_info, i, F_class3)),
     fs_type |-> DecodeKey(col)[2],
     period |-> DecodeKey(col)[1],
     amount |-> FloatOf(CellAt(df, i, col)),
     row |-> i,
     col |-> col]

\* lines 538-638: converted_data
PivotCells(df, metadata) ==
    LET st == analyze_dataframe_structure(df)
        m == Len(st.data_columns)
        cells == [k \in 1..(Len(df.rows) * m) |->
                     <<((k - 1) \div m) + 1, st.data_columns[((k - 1) % m) + 1]>>]
        emitted == SelectSeq(cells,
                     LAMBDA c : CellHasAmount(CellAt(df, c[1], c[2])) /\ KeyIsPivoted(c[2]))
    IN  [k \in 1..Len(emitted) |->
            PivotRecord(df, metadata, st.columns_info, emitted[k][1], emitted[k][2])]

(***************************************************************************)
(* convert_to_pivot_format: the period filter                              *)
(***************************************************************************)
\* re.search(r'\((\d{4})\.(\d{2})\)', s) matches at i
PeriodMarkerAt(s, i) ==
    /\ i + 8 <= Len(s)
    /\ s[i] = "("
    /\ AllDigits(SubSeq(s, i + 1, i + 4))
    /\ s[i + 5] = "."
    /\ AllDigits(SubSeq(s, i + 6, i + 7))
    /\ s[i + 8] = ")"

extract_period_from_report_name(report_nm) ==
    IF \E i \in 1..Len(report_nm) : PeriodMarkerAt(report_nm, i)
    THEN LET i == CHOOSE k \in 1..Len(report_nm) :
                      PeriodMarkerAt(report_nm, k)
                      /\ \A j \in 1..(k - 1) : ~PeriodMarkerAt(report_nm, j)
         IN  SubSeq(report_nm, i + 1, i + 4) \o SubSeq(report_nm, i + 6, i + 7)
    ELSE <<>>

\* the two sources of lines 668-680 tried in the other order
ReportPeriod_MetadataFirst(metadata) ==
    IF /\ metadata.yyyy # <<>>
       /\ metadata.month # <<>>
       /\ Len(metadata.yyyy) = 4
       /\ Len(metadata.month) = 2
    THEN metadata.yyyy \o metadata.month
    ELSE IF metadata.has_report_nm
         THEN extract_period_from_report_name(metadata.report_nm)
         ELSE <<>>

\* lines 668-680: report_period_yyyymm, <<>> for None and for ''
ReportPeriod(metadata) ==
    LET from_name == IF metadata.has_report_nm
                     THEN extract_period_from_report_name(metadata.report_nm)
                     ELSE <<>>
    IN  IF from_name # <<>> THEN from_name
        ELSE IF /\ metadata.yyyy # <<>>
                /\ metadata.month # <<>>
                /\ Len(metadata.yyyy) = 4
                /\ Len(metadata.month) = 2
             THEN metadata.yyyy \o metadata.month
             ELSE <<>>

\* line 682
FilterApplies(report_period_yyyymm) ==
    report_period_yyyymm # <<>> /\ Len(report_period_yyyymm) = 6

\* lines 684-686
TargetPeriodPattern(report_period_yyyymm) ==
    Slice(report_period_yyyymm, 1, 4) \o <<"-">> \o Slice(report_period_yyyymm, 5, 6)

\* the month alone looked for in the period
FilterCondition_MonthOnly(rec, target_period_pattern) ==
    Contains(rec.period, Slice(target_period_pattern, 5, 7))

\* line 698: the pattern holds digits and '-' only, so the regular
\* expression of str.contains is a substring test
FilterCondition(rec, target_period_pattern) ==
    Contains(rec.period, target_period_pattern)

\* the mask of line 698 applied one row off
FilterByPeriod_Misaligned(recs, target_period_pattern) ==
    LET keep == {k \in 1..Len(recs) :
                    k < Len(recs) /\ FilterCondition(recs[k + 1], target_period_pattern)}
        RECURSIVE Pick(_)
        Pick(k) == IF k > Len(recs) THEN <<>>
                   ELSE (IF k \in keep THEN <<recs[k]>> ELSE <<>>) \o Pick(k + 1)
    IN  Pick(1)

\* lines 698-699
FilterByPeriod(recs, target_period_pattern) ==
    SelectSeq(recs, LAMBDA r : FilterCondition(r, target_period_pattern))

\* lines 666-717: result_df after the filter
PeriodFilter(recs, metadata) ==
    IF Len(recs) # 0 /\ FilterApplies(ReportPeriod(metadata))
    THEN FilterByPeriod(recs, TargetPeriodPattern(ReportPeriod(metadata)))
    ELSE recs

(***************************************************************************)
(* sort_values: a stable sort                                              *)
(***************************************************************************)
StableSort(s, Less(_, _)) ==
    LET Rank(i) == Cardinality({j \in 1..Len(s) :
                        \/ Less(s[j], s[i])
                        \/ (~Less(s[i], s[j]) /\ j < i)}) + 1
    IN  [k \in 1..Len(s) |-> s[CHOOSE i \in 1..Len(s) : Rank(i) = k]]

\* lines 729-736: sort_values(['order_no', 'period'])
PivotLess(a, b) ==
    \/ a.order_no < b.order_no
    \/ (a.order_no = b.order_no /\ StrLess(a.period, b.period))

SortPivot(recs) == StableSort(recs, PivotLess)

ReportTypeChars(rt) == IF rt = "BS" THEN <<"B", "S">> ELSE <<"C", "I", "S">>

\* order_no left out of the sort keys
CombinedLess_TypeOnly(a, b) ==
    StrLess(ReportTypeChars(a.report_type), ReportTypeChars(b.report_type))

\* lines 1265-1266: sort_values(['report_type', 'order_no'], na_position='last')
CombinedLess(a, b) ==
    \/ StrLess(ReportTypeChars(a.report_type), ReportTypeChars(b.report_type))
    \/ (a.report_type = b.report_type /\ a.order_no < b.order_no)

\* the records left in the order of the concatenation
SortCombined_Unsorted(recs) == recs

SortCombined(recs) == StableSort(recs, CombinedLess)


(***************************************************************************)
(* improve_hierarchy_structure                                             *)
(***************************************************************************)
\* the mask taken over the records of every report type
IsBS_AnyReportType(r) == r.report_type \in {"BS", "CIS"}

IsBS(r) == r.report_type = "BS"

\* lines 1018-1029: one relabelling of class1
RelabelClass1(recs, overview, total) ==
    [k \in 1..Len(recs) |->
        IF IsBS(recs[k]) /\ recs[k].class1 = overview
        THEN [recs[k] EXCEPT !.class1 = total] ELSE recs[k]]

RelabelOverviews(recs) ==
    RelabelClass1(
        RelabelClass1(
            RelabelClass1(recs, AssetsOverview, AssetsTotal),
            LiabilitiesOverview, LiabilitiesTotal),
        EquityOverview, EquityTotal)

\* the step of lines 1031-1042 left out
ClearClass2_Never(recs, total) == recs

\* class2 cleared on every record of the section
ClearClass2_AnyClass2(recs, total) ==
    [k \in 1..Len(recs) |->
        IF recs[k].report_type = "BS" /\ recs[k].class1 = total
        THEN [recs[k] EXCEPT !.class2 = ""] ELSE recs[k]]

\* lines 1031-1042: one clearing of class2
ClearClass2(recs, total) ==
    [k \in 1..Len(recs) |->
        IF IsBS(recs[k]) /\ recs[k].class1 = total /\ recs[k].class2 = total
        THEN [recs[k] EXCEPT !.class2 = ""] ELSE recs[k]]

ClearDuplicateClass2(recs) ==
    ClearClass2(ClearClass2(ClearClass2(recs, AssetsTotal), LiabilitiesTotal),
                EquityTotal)

\* the total put one before the smallest order_no instead of at 0
SetAssetsTotalFirst_BeforeSmallest(recs) ==
    LET bs == {k \in 1..Len(recs) : recs[k].report_type = "BS"}
    IN  [k \in 1..Len(recs) |->
            IF /\ recs[k].report_type = "BS"
               /\ recs[k].class1 = AssetsTotal
               /\ recs[k].class2 = ""
            THEN [recs[k] EXCEPT !.order_no =
                     (CHOOSE x \in {recs[j].order_no : j \in bs} :
                         \A y \in {recs[j].order_no : j \in bs} : x <= y) - 1]
            ELSE recs[k]]

\* lines 1047-1048
SetAssetsTotalFirst(recs) ==
    [k \in 1..Len(recs) |->
        IF IsBS(recs[k]) /\ recs[k].class1 = AssetsTotal /\ recs[k].class2 = ""
        THEN [recs[k] EXCEPT !.order_no = 0] ELSE recs[k]]

Min(S) == CHOOSE x \in S : \A y \in S : x <= y

\* the totals keep their order_no
MoveTotalToFirstItem_Never(recs, total) == recs
\* lines 1050-1055 and 1057-1062: the total of a section takes the
\* smallest order_no of the section's records with a class2
MoveTotalToFirstItem(recs, total) ==
    LET items == {k \in 1..Len(recs) :
                     IsBS(recs[k]) /\ recs[k].class1 = total /\ recs[k].class2 # ""}
    IN  IF items # {}
        THEN LET first_order_no == Min({recs[k].order_no : k \in items})
             IN  [k \in 1..Len(recs) |->
                     IF IsBS(recs[k]) /\ recs[k].class1 = total /\ recs[k].class2 = ""
                     THEN [recs[k] EXCEPT !.order_no = first_order_no] ELSE recs[k]]
        ELSE recs

\* lines 1044-1062
ReorderTotals(recs) ==
    MoveTotalToFirstItem(
        MoveTotalToFirstItem(SetAssetsTotalFirst(recs), LiabilitiesTotal),
        EquityTotal)

\* the mask of line 1070 built on class1 instead of label_ko
RemoveCombinedTotal_ByClass1(recs) ==
    SelectSeq(recs, LAMBDA r : ~(r.report_type = "BS" /\ r.class1 = EquityAndLiabilitiesTotal))

\* lines 1066-1073
RemoveCombinedTotal(recs) ==
    SelectSeq(recs, LAMBDA r : ~(IsBS(r) /\ r.label_ko = EquityAndLiabilitiesTotal))

improve_hierarchy_structure(df) ==
    RemoveCombinedTotal(ReorderTotals(ClearDuplicateClass2(RelabelOverviews(df))))

\* pd.concat(all_financial_data, ignore_index=True)
RECURSIVE Concat(_)
Concat(dfs) == IF Len(dfs) = 0 THEN <<>> ELSE Head(dfs) \o Concat(Tail(dfs))

(***************************************************************************)
(* save_to_parquet: the preparation of the records before they are written *)
(***************************************************************************)
\* '재무상태표' and '포괄손익계산서'
ReportNameBS == "statement-of-financial-position"
ReportNameCIS == "statement-of-comprehensive-income"

\* '당기', '3개월', '누적'
PeriodCurrent == <<"dang", "gi">>
PeriodQuarterly == <<"3", "gae", "wol">>
PeriodCumulative == <<"nu", "jeok">>

\* lines 802-807: label_ko and concept_id renamed
RenameColumns(r) ==
    [order_no |-> r.order_no, yyyy |-> r.yyyy, month |-> r.month,
     report_type |-> r.report_type,
     account_id |-> r.concept_id, account_name |-> r.label_ko,
     class1 |-> r.class1, class2 |-> r.class2, class3 |-> r.class3,
     fs_type |-> r.fs_type, period |-> r.period, amount |-> r.amount,
     row |-> r.row, col |-> r.col]

\* the mapping of lines 821-825 taken from the overview placeholders
TotalMapping_FromOverview(label) ==
    CASE label = AssetsOverview -> AssetsTotal
      [] label = LiabilitiesOverview -> LiabilitiesTotal
      [] label = EquityOverview -> EquityTotal
      [] OTHER -> label

\* lines 821-825: total_mapping
TotalMapping(label) ==
    CASE label = AssetsTotal -> Assets
      [] label = LiabilitiesTotal -> Liabilities
      [] label = EquityTotal -> Equity
      [] OTHER -> label

\* lines 810-839: account_name and class1 of the records of the statement
\* of position
CleanTotals(r) ==
    IF r.report_type = "BS"
    THEN [r EXCEPT !.account_name = TotalMapping(@), !.class1 = TotalMapping(@)]
    ELSE r

\* lines 843-847
ReportNameOf(report_type) == IF report_type = "BS" THEN ReportNameBS ELSE ReportNameCIS

\* pd.notna(x) and x != ''
HasLabel(x) == x # NullLabel /\ x # ""

\* the label itself returned when no record has the name
NameToId_DefaultLabel(recs, x) ==
    LET named == {k \in 1..Len(recs) : recs[k].account_name = x}
    IN  IF HasLabel(x)
        THEN IF named # {}
             THEN recs[CHOOSE k \in named : \A j \in named : k >= j].account_id
             ELSE x
        ELSE ""

\* lines 890-895 and the lambda of lines 898-900: name_to_id_mapping.get(x, '');
\* a later row of the same account_name replaces the entry
NameToId(recs, x) ==
    LET named == {k \in 1..Len(recs) : recs[k].account_name = x}
    IN  IF HasLabel(x) /\ named # {}
        THEN recs[CHOOSE k \in named : \A j \in named : k >= j].account_id
        ELSE ""

\* str.strip() of blanks
RECURSIVE LStrip(_)
LStrip(s) == IF Len(s) > 0 /\ Head(s) = " " THEN LStrip(Tail(s)) ELSE s

RECURSIVE RStrip(_)
RStrip(s) ==
    IF Len(s) > 0 /\ s[Len(s)] = " " THEN RStrip(SubSeq(s, 1, Len(s) - 1)) ELSE s

Strip(s) == LStrip(RStrip(s))

\* int(s) returns for a str of digits
IntOk(s) == Len(s) > 0 /\ AllDigits(s)

\* lines 929-932 return: both dates give a year and a month
YearMonthOk(date) ==
    LET parts == Split(date, "-")
    IN  Len(parts) >= 2 /\ IntOk(parts[1]) /\ IntOk(parts[2])

\* lines 929-935
MonthDiff(start_date, end_date) ==
    LET s == Split(start_date, "-")
        e == Split(end_date, "-")
    IN  (ParseInt(e[1]) - ParseInt(s[1])) * 12 + (ParseInt(e[2]) - ParseInt(s[2])) + 1

\* lines 918-952: the period of a record of the income statement
PeriodBucket(period_str) ==
    IF Contains(period_str, <<"~">>)
    THEN LET date_parts == Split(period_str, "~")
         IN  IF Len(date_parts) = 2
             THEN LET start_date == Strip(date_parts[1])
                      end_date == Strip(date_parts[2])
                  IN  IF YearMonthOk(start_date) /\ YearMonthOk(end_date)
                      THEN IF MonthDiff(start_date, end_date) <= 3
                           THEN PeriodQuarterly ELSE PeriodCumulative
                      ELSE PeriodCumulative
             ELSE period_str
    ELSE IF Len(period_str) = 10 /\ Contains(period_str, <<"-">>)
    THEN PeriodQuarterly
    ELSE PeriodCumulative

\* lines 912-957
ConvertPeriod(r) ==
    IF r.report_type = "BS" THEN PeriodCurrent
    ELSE IF r.report_type = "CIS" THEN PeriodBucket(r.period)
    ELSE r.period

\* lines 794-960: the records to_parquet is given
PrepareRecords(df) ==
    LET cleaned == [k \in 1..Len(df) |-> CleanTotals(RenameColumns(df[k]))]
    IN  [k \in 1..Len(cleaned) |->
            LET r == cleaned[k]
            IN  [order_no |-> r.order_no, yyyy |-> r.yyyy, month |-> r.month,
                 report_type |-> r.report_type,
                 report_name |-> ReportNameOf(r.report_type),
                 account_id |-> r.account_id, account_name |-> r.account_name,
                 class1 |-> r.class1, class2 |-> r.class2, class3 |-> r.class3,
                 class1_id |-> NameToId(cleaned, r.class1),
                 class2_id |-> NameToId(cleaned, r.class2),
                 class3_id |-> NameToId(cleaned, r.class3),
                 fs_type |-> r.fs_type, period |-> ConvertPeriod(r),
                 amount |-> r.amount, row |-> r.row, col |-> r.col]]


(***************************************************************************)
(* extract_metadata_from_xbrl: the entity code                             *)
(***************************************************************************)
EntityWord == <<"e", "n", "t", "i", "t", "y">>
DefaultCorpCode == <<"0", "0", "0", "0", "0", "0", "0", "0">>

\* re.search(r'entity(\d{8})', filename) matches at i
EntityCodeAt(filename, i) ==
    /\ i + 13 <= Len(filename)
    /\ SubSeq(filename, i, i + 5) = EntityWord
    /\ AllDigits(SubSeq(filename, i + 6, i + 13))

\* lines 263-274; the group has 8 digits, so zfill(8) leaves it as it is
ExtractCorpCode(filename) ==
    IF Contains(filename, EntityWord)
          /\ \E i \in 1..Len(filename) : EntityCodeAt(filename, i)
    THEN LET i == CHOOSE k \in 1..Len(filename) :
                      EntityCodeAt(filename, k)
                      /\ \A j \in 1..(k - 1) : ~EntityCodeAt(filename, j)
         IN  SubSeq(filename, i + 6, i + 13)
    ELSE DefaultCorpCode

\* lines 238-337 with an entity directory that does not hold the code
extract_metadata_from_xbrl(x) ==
    LET corp_code == ExtractCorpCode(x.filename)
        ym == ExtractYearMonth(x.period_columns)
    IN  [corp_code |-> corp_code,
         corp_name |-> <<"C", "o", "r", "p", "_">> \o corp_code,
         yyyy |-> ym.yyyy,
         month |-> ym.month,
         has_report_nm |-> FALSE,
         report_nm |-> <<>>,
         report_type |-> "UNKNOWN"]

(***************************************************************************)
(* Receipt dates (lines 91-152 and 851-887) and the name of the output     *)
(* file (lines 770-784).                                                   *)
(***************************************************************************)
\* Path(xbrl_file_path).name: what follows the last separator
PathName(path) ==
    LET seps == {i \in 1..Len(path) : path[i] = "/"}
    IN  IF seps = {} THEN path
        ELSE SubSeq(path, (CHOOSE i \in seps : \A j \in seps : j <= i) + 1, Len(path))

\* the empty dict
EmptyMapping == [k \in {} |-> <<>>]

\* mapping[key] = value
SetItem(mapping, key, value) ==
    [k \in DOMAIN mapping \cup {key} |-> IF k = key THEN value ELSE mapping[k]]

\* registers under the whole path, and an empty date too
register_xbrl_rcept_dt_ByPathAlways(mapping, xbrl_file_path, rcept_dt) ==
    SetItem(mapping, xbrl_file_path, rcept_dt)

\* lines 91-105: the mapping after register_xbrl_rcept_dt
register_xbrl_rcept_dt(mapping, xbrl_file_path, rcept_dt) ==
    IF rcept_dt # <<>> THEN SetItem(mapping, PathName(xbrl_file_path), rcept_dt)
    ELSE mapping

\* lines 107-152: mapping.get(Path(xbrl_file_path).name, '')
get_rcept_dt_by_xbrl_path(mapping, xbrl_file_path) ==
    IF PathName(xbrl_file_path) \in DOMAIN mapping
    THEN mapping[PathName(xbrl_file_path)]
    ELSE <<>>

\* receipt_ymd and str(receipt_ymd) not in ['None', 'null', '']; None is
\* written as the empty string
ReceiptGiven(receipt_ymd) ==
    receipt_ymd \notin {<<>>, <<"N", "o", "n", "e">>, <<"n", "u", "l", "l">>}

\* len(s) == 8 and s.isdigit()
IsDate8(s) == Len(s) = 8 /\ AllDigits(s)

\* the passed date only, the mapping is not asked
FinalReceiptDate_PassedOnly(receipt_ymd, mapping, xbrl_file_path) ==
    receipt_ymd

\* lines 851-870: final_rcept_dt
FinalReceiptDate(receipt_ymd, mapping, xbrl_file_path) ==
    IF ReceiptGiven(receipt_ymd) /\ IsDate8(receipt_ymd) THEN receipt_ymd
    ELSE IF ~ReceiptGiven(receipt_ymd)
              /\ get_rcept_dt_by_xbrl_path(mapping, xbrl_file_path) # <<>>
         THEN get_rcept_dt_by_xbrl_path(mapping, xbrl_file_path)
         ELSE receipt_ymd

\* datetime.now().strftime('%Y-%m-%d') at the time of the call
CurrentDate == <<"2", "0", "2", "6", "-", "1", "1", "-", "0", "4">>

\* lines 872-880: formatted_receipt_ymd
FormattedReceipt(final_rcept_dt) ==
    IF final_rcept_dt # <<>> /\ IsDate8(final_rcept_dt)
    THEN FormatDate(final_rcept_dt)
    ELSE CurrentDate

\* line 887: df_copy['receipt_ymd'] = formatted_receipt_ymd
StampReceipt(records, formatted_receipt_ymd) ==
    [k \in 1..Len(records) |->
        [f \in DOMAIN records[k] \cup {"receipt_ymd"} |->
            IF f = "receipt_ymd" THEN formatted_receipt_ymd ELSE records[k][f]]]

\* lines 770-784
generate_output_filename(metadata, report_nm) ==
    IF extract_period_from_report_name(report_nm) # <<>>
    THEN <<"F", "S", "_">> \o metadata.corp_code \o <<"_">>
             \o extract_period_from_report_name(report_nm)
             \o <<".", "c", "s", "v">>
    ELSE <<"F", "S", "_">> \o metadata.corp_code \o <<"_">>
             \o metadata.yyyy \o metadata.month
             \o <<".", "p", "a", "r", "q", "u", "e", "t">>
(***************************************************************************)
(* S3Uploader.extract_partition_info (s3_uploader.py, lines 71-119).       *)
(***************************************************************************)
ParquetSuffix == <<".", "p", "a", "r", "q", "u", "e", "t">>

\* r'FS_(\d{8})_(\d{4})(\d{2})\.parquet' matches at i
PartitionPatternAt(filename, i) ==
    /\ i + 25 <= Len(filename)
    /\ SubSeq(filename, i, i + 2) = <<"F", "S", "_">>
    /\ AllDigits(SubSeq(filename, i + 3, i + 10))
    /\ filename[i + 11] = "_"
    /\ AllDigits(SubSeq(filename, i + 12, i + 17))
    /\ SubSeq(filename, i + 18, i + 25) = ParquetSuffix

\* lines 83-100: None, or corp_code, year and month of the first match
extract_partition_info(filename) ==
    IF \E i \in 1..Len(filename) : PartitionPatternAt(filename, i)
    THEN LET i == CHOOSE k \in 1..Len(filename) :
                      PartitionPatternAt(filename, k)
                      /\ \A j \in 1..(k - 1) : ~PartitionPatternAt(filename, j)
         IN  [matched |-> TRUE,
              corp_code |-> SubSeq(filename, i + 3, i + 10),
              year |-> SubSeq(filename, i + 12, i + 15),
              month |-> SubSeq(filename, i + 16, i + 17)]
    ELSE [matched |-> FALSE, corp_code |-> <<>>, year |-> <<>>, month |-> <<>>]
(***************************************************************************)
(* The filings of the model.                                               *)
(***************************************************************************)
D20240630 == <<"2", "0", "2", "4", "0", "6", "3", "0">>
D20250630 == <<"2", "0", "2", "5", "0", "6", "3", "0">>
D20250101 == <<"2", "0", "2", "5", "0", "1", "0", "1">>
D20240101 == <<"2", "0", "2", "4", "0", "1", "0", "1">>
D20250401 == <<"2", "0", "2", "5", "0", "4", "0", "1">>
\* seven digits: not a date token
D2025063 == <<"2", "0", "2", "5", "0", "6", "3">>
StatementTitle == <<"H">>

DateKey(date_str, fs) == Tup(<<Str(date_str), Tup(<<Str(fs)>>)>>)
FieldKey(f) == Tup(<<Str(StatementTitle), Str(f)>>)

\* the data columns of a MultiIndex matrix
MultiDataKeys ==
    <<DateKey(D20240630, ConsolidatedFS),
      DateKey(D20250630, ConsolidatedFS),
      DateKey(D20250630, SeparateFS),
      DateKey(D20250101 \o <<"-">> \o D20250630, ConsolidatedFS),
      DateKey(D2025063, ConsolidatedFS),
      Tup(<<Str(D20250630), Tup(<<>>)>>),
      DateKey(D20250401 \o <<"-">> \o D20250630, ConsolidatedFS)>>

\* the data columns of a flat matrix
FlatDataKeys ==
    <<Str(D20250630),
      Str(D20250101 \o <<"-">> \o D20250630),
      Str(<<"bi", "go", " ", "byeol", "do">>),
      Str(<<"1", "~", "2", "~", "3">>)>>

\* the subsequences of keys with at most n elements
RECURSIVE SubSeqsUpTo(_, _)
SubSeqsUpTo(keys, n) ==
    IF Len(keys) = 0 \/ n = 0 THEN {<<>>}
    ELSE SubSeqsUpTo(Tail(keys), n)
         \cup {<<Head(keys)>> \o t : t \in SubSeqsUpTo(Tail(keys), n - 1)}

\* the sequences over S with at most n elements
RECURSIVE SeqsUpTo(_, _)
SeqsUpTo(S, n) ==
    IF n = 0 THEN {<<>>}
    ELSE {<<>>} \cup {<<x>> \o t : x \in S, t \in SeqsUpTo(S, n - 1)}

SeqsOfLen(S, n) == {t \in SeqsUpTo(S, n) : Len(t) = n}

FixedFieldOrder == <<F_concept_id, F_label_ko, F_class1, F_class2, F_class3>>

\* a matrix: the fixed fields of every row, then the data cells
Matrix(multi, data_keys, fixed_rows, data_rows) ==
    [columns |-> [k \in 1..Len(FixedFieldOrder) |->
                     IF multi THEN FieldKey(FixedFieldOrder[k])
                     ELSE Str(FixedFieldOrder[k])] \o data_keys,
     rows |-> [i \in 1..Len(fixed_rows) |->
                  [k \in 1..Len(FixedFieldOrder) |-> Txt(fixed_rows[i][k])]
                  \o data_rows[i]],
     multi |-> multi]

\* the cell values of a data column
CellValues == {NA, Num(0), Num(12345), NumStr(7), Txt("n/a")}

\* <<concept_id, label_ko, class1, class2, class3>> of the rows of a
\* statement of financial position
PositionRows ==
    {<<"ifrs_Assets", AssetsTotal, AssetsOverview, AssetsTotal, "">>,
     <<"ifrs_CurrentAssets", "current-assets", AssetsOverview, AssetsOverview, "">>,
     <<"ifrs_Liabilities", LiabilitiesTotal, LiabilitiesOverview, LiabilitiesTotal, "">>,
     <<"ifrs_CurrentLiabilities", "current-liabilities", LiabilitiesOverview,
       "current-liabilities", "">>,
     <<"ifrs_EquityAndLiabilities", EquityAndLiabilitiesTotal, LiabilitiesOverview,
       "noncurrent-liabilities", "">>,
     <<"ifrs_Equity", EquityTotal, EquityOverview, EquityTotal, "">>,
     <<"ifrs_IssuedCapital", "issued-capital", EquityOverview, "issued-capital", "">>}

\* the columns of get_period_information()
PeriodColumnChoices ==
    {<<>>,
     <<Str(D20240630), DateKey(D20240101 \o <<"-">> \o D20240630, ConsolidatedFS)>>}

\* report_nm: none, with a (YYYY.MM) marker, without one
TitleWithMarker == <<"H", "(", "2", "0", "2", "5", ".", "0", "6", ")">>
TitleWithoutMarker == <<"Q", "(", "2", "0", "2", "5", ")">>
ReportNames == {<<>>, TitleWithMarker, TitleWithoutMarker}

Filename == EntityWord \o <<"0", "0", "1", "7", "1", "6", "3", "6">> \o <<".", "x">>

DataKeysOf(multi) == IF multi THEN MultiDataKeys ELSE FlatDataKeys

\* a file get_xbrl_from_file reads
Filing(period_columns, bs, cis) ==
    [filename |-> Filename, file |-> "ok",
     period_columns |-> period_columns, bs |-> bs, cis |-> cis]

\* a path with no file, and a file get_xbrl_from_file cannot read
BrokenFilings ==
    {[filename |-> Filename, file |-> f,
      period_columns |-> <<>>, bs |-> EmptyDataFrame, cis |-> EmptyDataFrame] :
        f \in {"missing", "unreadable"}}

AssetsTotalRow == <<"ifrs_Assets", AssetsTotal, AssetsOverview, AssetsTotal, "">>

\* one-row matrices with every kind of data column and of cell
CellMatrices ==
    UNION {UNION {{Matrix(multi, keys, <<AssetsTotalRow>>, <<cells>>) :
                      cells \in SeqsOfLen(CellValues, Len(keys))} :
                  keys \in SubSeqsUpTo(DataKeysOf(multi), MaxDataCols)} :
           multi \in BOOLEAN}

CellFilings ==
    {Filing(period_columns, m, EmptyDataFrame) :
        period_columns \in PeriodColumnChoices, m \in CellMatrices}
    \cup {Filing(period_columns, EmptyDataFrame, m) :
        period_columns \in PeriodColumnChoices, m \in CellMatrices}

\* the data columns and the title of the filings with several rows: a
\* comparative date filtered out, two dates without a filter, two scopes of
\* the filing's own date
RowScenarios ==
    {[keys |-> <<DateKey(D20240630, ConsolidatedFS), DateKey(D20250630, ConsolidatedFS)>>,
      report_nm |-> TitleWithMarker],
     [keys |-> <<DateKey(D20240630, ConsolidatedFS), DateKey(D20250630, ConsolidatedFS)>>,
      report_nm |-> <<>>],
     [keys |-> <<DateKey(D20250630, ConsolidatedFS), DateKey(D20250630, SeparateFS)>>,
      report_nm |-> TitleWithMarker]}

RowMatrix(keys, fixed_rows) ==
    IF Len(fixed_rows) = 0 THEN EmptyDataFrame
    ELSE Matrix(TRUE, keys, fixed_rows,
                [i \in 1..Len(fixed_rows) |-> <<Num(12345), Num(7)>>])

\* the income statements of the filings with several rows
IncomeRowChoices ==
    {<<>>,
     <<<<"ifrs_Revenue", "revenue", "profit-or-loss", "revenue", "">>,
       <<"ifrs_EquityAndLiabilities", EquityAndLiabilitiesTotal, "profit-or-loss", "", "">>>>}

\* filings with up to MaxRows rows of a statement of financial position
RowFilings(keys) ==
    {Filing(<<>>, RowMatrix(keys, bs_rows), RowMatrix(keys, cis_rows)) :
        bs_rows \in SeqsUpTo(PositionRows, MaxRows),
        cis_rows \in IncomeRowChoices}

\* column identifiers of a MultiIndex: two columns of one fixed field, a
\* dated column and another column
MultiColumnIds ==
    {FieldKey(F_label_ko),
     Tup(<<Str(<<"B">>), Str(F_label_ko)>>),
     DateKey(D20250630, ConsolidatedFS),
     Tup(<<Str(StatementTitle), Str(<<"c", "l", "a", "s", "s", "4">>)>>)}

\* column identifiers of a flat Index: a fixed field, a dated column, an
\* integer label and a 3-tuple
FlatColumnIds ==
    {Str(F_label_ko),
     Str(D20250630),
     IntKey,
     Tup(<<Str(StatementTitle), Str(F_label_ko), Str(<<"B">>)>>)}

\* the sequences over S of at most n elements, no element twice
DistinctSeqsUpTo(S, n) ==
    {t \in SeqsUpTo(S, n) :
        Len(t) > 0 /\ \A i, j \in 1..Len(t) : t[i] = t[j] => i = j}

\* the column names a fixed field
NamesField(col) ==
    \/ col.typ = "str" /\ col.s \in FieldNames
    \/ col.typ = "tuple" /\ Len(col.items) >= 2 /\ col.items[2].s \in FieldNames

\* a one-row matrix with the columns cols
ColumnMatrix(multi, cols) ==
    [columns |-> cols,
     rows |-> <<[k \in 1..Len(cols) |->
                   IF NamesField(cols[k]) THEN Txt("assets") ELSE Num(12345)]>>,
     multi |-> multi]

\* filings whose statement of financial position has any sequence of
\* column identifiers
ColumnFilings ==
    {Filing(<<>>, ColumnMatrix(TRUE, cols), EmptyDataFrame) :
        cols \in DistinctSeqsUpTo(MultiColumnIds, MaxDataCols)}
    \cup {Filing(<<>>, ColumnMatrix(FALSE, cols), EmptyDataFrame) :
        cols \in {t \in DistinctSeqsUpTo(FlatColumnIds, MaxDataCols) :
                     \E k \in 1..Len(t) : t[k].typ # "tuple"}}

\* a statement whose only row has no label: label_ko is NaN in every record
UnlabelledMatrix ==
    [columns |-> <<FieldKey(F_label_ko), DateKey(D20250630, ConsolidatedFS)>>,
     rows |-> <<<<NA, Num(12345)>>>>,
     multi |-> TRUE]

UnlabelledFilings == {Filing(<<>>, UnlabelledMatrix, EmptyDataFrame)}

\* the filings processed with a receipt date or with dates registered before
ReceiptFilings ==
    {Filing(period_columns,
            Matrix(TRUE, <<DateKey(D20250630, ConsolidatedFS)>>,
                   <<AssetsTotalRow>>, <<<<Num(12345)>>>>),
            EmptyDataFrame) : period_columns \in PeriodColumnChoices}

D20250813 == <<"2", "0", "2", "5", "0", "8", "1", "3">>
D20250701 == <<"2", "0", "2", "5", "0", "7", "0", "1">>
DashedReceipt == <<"2", "0", "2", "5", "-", "0", "6", "-", "3", "0">>

\* receipt_ymd: none, a date of 8 digits, the form of the docstring, 'null'
ReceiptChoices == {<<>>, D20250813, DashedReceipt, <<"n", "u", "l", "l">>}

OtherFilename == EntityWord \o <<"0", "0", "1", "2", "6", "3", "8", "0">> \o <<".", "x">>

\* self.xbrl_rcept_dt_mapping as earlier calls left it
MappingChoices ==
    {EmptyMapping,
     SetItem(EmptyMapping, Filename, D20250701),
     SetItem(EmptyMapping, Filename, DashedReceipt),
     SetItem(EmptyMapping, OtherFilename, D20250701)}
(***************************************************************************)
(* The state of one call of process_xbrl_file or of                        *)
(* process_xbrl_file_with_report_info.                                     *)
(***************************************************************************)
VARIABLES
    xbrl,                \* the parsed filing get_xbrl_from_file returns
    report_nm,           \* the argument report_nm
    pc,                  \* the position in the call
    metadata,            \* the dict metadata
    balance_sheet_df,    \* the statement of financial position with metadata
    income_statement_df, \* the income statement with metadata
    cur,                 \* the report type convert_to_pivot_format works on
    converted_data,      \* converted_data of that call
    result_df,           \* result_df of that call
    all_financial_data,  \* the list all_financial_data
    combined_df,         \* combined_df
    df_copy,             \* df_copy of save_to_parquet, as written
    receipt_ymd,         \* the argument receipt_ymd
    xbrl_rcept_dt_mapping, \* self.xbrl_rcept_dt_mapping
    generated_files,     \* the list generated_files
    all_xbrl_files,      \* the argument of process_all_xbrl_files_internal
    company_no,          \* the position of its outer loop
    file_no,             \* the position of its inner loop
    stats,               \* self.stats of the batch processor
    all_csv_files,       \* the list all_csv_files
    attempted,           \* the positions whose file was handed to the processor
    corp_name_mapping,   \* self.corp_name_mapping
    corp_list_json,      \* corp_list.json as the next load would read it
    resolved,            \* corp_code and corp_name of the last metadata
    registered,          \* the calls of register_xbrl_rcept_dt so far
    lookup               \* the last call of get_rcept_dt_by_xbrl_path

batch_vars ==
    <<all_xbrl_files, company_no, file_no, stats, all_csv_files, attempted>>

directory_vars == <<corp_name_mapping, corp_list_json, resolved>>

receipt_vars == <<registered, lookup>>

call_vars ==
    <<xbrl, report_nm, pc, metadata, balance_sheet_df, income_statement_df,
      cur, converted_data, result_df, all_financial_data, combined_df, df_copy,
      receipt_ymd, generated_files>>

vars ==
    <<call_vars, xbrl_rcept_dt_mapping, batch_vars, directory_vars,
      receipt_vars>>

\* self.stats of a new batch processor (xbrl_batch_processor.py, lines 57-64)
NoStats ==
    [companies_processed |-> 0, xbrl_files_processed |-> 0,
     csv_files_generated |-> 0, errors |-> <<>>]

\* no batch is running
BatchIdle ==
    /\ all_xbrl_files = <<>>
    /\ company_no = 1
    /\ file_no = 1
    /\ stats = NoStats
    /\ all_csv_files = <<>>
    /\ attempted = <<>>

\* none of the paths of _load_corp_name_mapping has a file
NoCorpList == [exists |-> FALSE, mapping |-> EmptyMapping]

\* a processor constructed without corp_list.json
DirectoryIdle ==
    /\ corp_name_mapping = EmptyMapping
    /\ corp_list_json = NoCorpList
    /\ resolved = <<>>

\* no call of the receipt-date methods from outside
ReceiptIdle ==
    /\ registered = <<>>
    /\ lookup = <<>>

NoMetadata ==
    [corp_code |-> <<>>, corp_name |-> <<>>, yyyy |-> <<>>, month |-> <<>>,
     has_report_nm |-> FALSE, report_nm |-> <<>>, report_type |-> "UNKNOWN"]

Init ==
    /\ \/ /\ \/ xbrl \in CellFilings /\ report_nm \in ReportNames
             \/ \E sc \in RowScenarios :
                    xbrl \in RowFilings(sc.keys) /\ report_nm = sc.report_nm
             \/ xbrl \in ColumnFilings /\ report_nm = <<>>
             \/ xbrl \in BrokenFilings /\ report_nm \in ReportNames
             \/ xbrl \in UnlabelledFilings /\ report_nm \in ReportNames
          /\ receipt_ymd = <<>>
          /\ xbrl_rcept_dt_mapping = EmptyMapping
       \/ /\ xbrl \in ReceiptFilings
          /\ report_nm \in ReportNames
          /\ receipt_ymd \in IF report_nm = <<>> THEN {<<>>} ELSE ReceiptChoices
          /\ xbrl_rcept_dt_mapping \in MappingChoices
    /\ generated_files = <<>>
    /\ BatchIdle
    /\ DirectoryIdle
    /\ ReceiptIdle
    /\ pc = "start"
    /\ metadata = NoMetadata
    /\ balance_sheet_df = EmptyDataFrame
    /\ income_statement_df = EmptyDataFrame
    /\ cur = "BS"
    /\ converted_data = <<>>
    /\ result_df = <<>>
    /\ all_financial_data = <<>>
    /\ combined_df = <<>>
    /\ df_copy = <<>>

\* no frame makes line 1011 raise
LabelsNotStr_Never(recs) == FALSE
\* every label_ko of the frame is NaN: the column has dtype float64 and
\* .str raises AttributeError
LabelsNotStr(recs) ==
    Len(recs) # 0 /\ \A k \in 1..Len(recs) : recs[k].label_ko = NullLabel
\* xbrl_batch_processor.py, lines 169-172 and 480-483: the entry point the
\* callers take
EntryPoint ==
    IF report_nm # <<>> THEN "process_xbrl_file_with_report_info"
    ELSE "process_xbrl_file"

\* the check of the path made by both entry points
FileNotFound_AnyEntry == xbrl.file = "missing"

\* lines 1101-1102: process_xbrl_file checks that the path exists
FileNotFound == EntryPoint = "process_xbrl_file" /\ xbrl.file = "missing"

\* line 1102: raise FileNotFoundError
RaiseFileNotFound ==
    /\ pc = "start"
    /\ FileNotFound
    /\ pc' = "raised"
    /\ UNCHANGED <<batch_vars, directory_vars, receipt_vars,
                   xbrl, report_nm, receipt_ymd, xbrl_rcept_dt_mapping,
                   generated_files, df_copy, metadata, balance_sheet_df,
                   income_statement_df, cur, converted_data, result_df,
                   all_financial_data, combined_df>>

\* lines 1108 and 1192-1212 with extract_financial_data (lines 349-393);
\* the handler of lines 391-393 returns two empty frames and {}
ExtractFinancialData ==
    /\ pc = "start"
    /\ ~FileNotFound
    /\ LET md == IF xbrl.file = "ok" THEN extract_metadata_from_xbrl(xbrl)
                 ELSE NoMetadata
           bs == IF xbrl.file = "ok" THEN add_metadata_to_dataframe(xbrl.bs, md, "BS")
                 ELSE EmptyDataFrame
           cis == IF xbrl.file = "ok" THEN add_metadata_to_dataframe(xbrl.cis, md, "CIS")
                  ELSE EmptyDataFrame
       IN  /\ balance_sheet_df' = bs
           /\ income_statement_df' = cis
           /\ IF IsEmpty(bs) /\ IsEmpty(cis)
              THEN /\ metadata' = md
                   /\ pc' = "done"
              ELSE /\ metadata' = IF report_nm # <<>>
                                  THEN [md EXCEPT !.has_report_nm = TRUE,
                                                  !.report_nm = report_nm]
                                  ELSE md
                   /\ pc' = "convert"
    /\ cur' = "BS"
    /\ xbrl_rcept_dt_mapping' =
          IF EntryPoint = "process_xbrl_file_with_report_info"
                /\ ReceiptGiven(receipt_ymd)
          THEN register_xbrl_rcept_dt(xbrl_rcept_dt_mapping, xbrl.filename,
                                      receipt_ymd)
          ELSE xbrl_rcept_dt_mapping
    /\ UNCHANGED <<batch_vars, directory_vars, receipt_vars,
                   xbrl, report_nm, receipt_ymd, generated_files, df_copy,
                   converted_data, result_df, all_financial_data, combined_df>>

CurrentDf == IF cur = "BS" THEN balance_sheet_df ELSE income_statement_df

\* {**metadata, 'report_type': cur}
CurrentMetadata == [metadata EXCEPT !.report_type = cur]

\* the position after the statement cur
AfterStatement ==
    IF cur = "BS" THEN pc' = "convert" /\ cur' = "CIS"
    ELSE pc' = "combine" /\ cur' = cur

\* lines 1235/1241-1242 and 1245/1251-1252: an empty statement is passed over
SkipEmptyStatement ==
    /\ pc = "convert"
    /\ IsEmpty(CurrentDf)
    /\ AfterStatement
    /\ UNCHANGED <<batch_vars, directory_vars, receipt_vars,
                   xbrl, report_nm, receipt_ymd, xbrl_rcept_dt_mapping,
                   generated_files, df_copy, metadata, balance_sheet_df, income_statement_df,
                   converted_data, result_df, all_financial_data, combined_df>>

\* convert_to_pivot_format, lines 538-638
PivotStatement ==
    /\ pc = "convert"
    /\ ~IsEmpty(CurrentDf)
    /\ converted_data' = PivotCells(CurrentDf, CurrentMetadata)
    /\ result_df' = converted_data'
    /\ pc' = "pivoted"
    /\ UNCHANGED <<batch_vars, directory_vars, receipt_vars,
                   xbrl, report_nm, receipt_ymd, xbrl_rcept_dt_mapping,
                   generated_files, df_copy, metadata, balance_sheet_df, income_statement_df,
                   cur, all_financial_data, combined_df>>

\* convert_to_pivot_format, lines 666-717
FilterStatement ==
    /\ pc = "pivoted"
    /\ result_df' = PeriodFilter(result_df, CurrentMetadata)
    /\ pc' = "filtered"
    /\ UNCHANGED <<batch_vars, directory_vars, receipt_vars,
                   xbrl, report_nm, receipt_ymd, xbrl_rcept_dt_mapping,
                   generated_files, df_copy, metadata, balance_sheet_df, income_statement_df,
                   cur, converted_data, all_financial_data, combined_df>>

\* convert_to_pivot_format, lines 729-739, and the caller's lines
\* 1238-1240 / 1248-1250
SortStatement ==
    /\ pc = "filtered"
    /\ result_df' = SortPivot(result_df)
    /\ all_financial_data' = IF Len(result_df') # 0
                             THEN Append(all_financial_data, result_df')
                             ELSE all_financial_data
    /\ AfterStatement
    /\ UNCHANGED <<batch_vars, directory_vars, receipt_vars,
                   xbrl, report_nm, receipt_ymd, xbrl_rcept_dt_mapping,
                   generated_files, df_copy, metadata, balance_sheet_df, income_statement_df,
                   converted_data, combined_df>>

\* lines 1255-1262
ImproveHierarchy ==
    /\ pc = "combine"
    /\ Len(all_financial_data) # 0
    /\ ~LabelsNotStr(Concat(all_financial_data))
    /\ combined_df' = improve_hierarchy_structure(Concat(all_financial_data))
    /\ pc' = "improved"
    /\ UNCHANGED <<batch_vars, directory_vars, receipt_vars,
                   xbrl, report_nm, receipt_ymd, xbrl_rcept_dt_mapping,
                   generated_files, df_copy, metadata, balance_sheet_df, income_statement_df,
                   cur, converted_data, result_df, all_financial_data>>

\* line 1011 raises AttributeError; lines 1287-1292 catch it and return
\* generated_files, process_xbrl_file passes it on
ImproveHierarchyRaises ==
    /\ pc = "combine"
    /\ Len(all_financial_data) # 0
    /\ LabelsNotStr(Concat(all_financial_data))
    /\ pc' = IF EntryPoint = "process_xbrl_file_with_report_info"
             THEN "failed" ELSE "raised"
    /\ UNCHANGED <<batch_vars, directory_vars, receipt_vars,
                   xbrl, report_nm, receipt_ymd, xbrl_rcept_dt_mapping,
                   generated_files, df_copy, metadata, balance_sheet_df,
                   income_statement_df, cur, converted_data, result_df,
                   all_financial_data, combined_df>>

\* lines 1277-1278
NothingToSave ==
    /\ pc = "combine"
    /\ Len(all_financial_data) = 0
    /\ pc' = "done"
    /\ UNCHANGED <<batch_vars, directory_vars, receipt_vars,
                   xbrl, report_nm, receipt_ymd, xbrl_rcept_dt_mapping,
                   generated_files, df_copy, metadata, balance_sheet_df, income_statement_df,
                   cur, converted_data, result_df, all_financial_data, combined_df>>

\* lines 1265-1266
SortCombinedData ==
    /\ pc = "improved"
    /\ combined_df' = SortCombined(combined_df)
    /\ pc' = "sorted"
    /\ UNCHANGED <<batch_vars, directory_vars, receipt_vars,
                   xbrl, report_nm, receipt_ymd, xbrl_rcept_dt_mapping,
                   generated_files, df_copy, metadata, balance_sheet_df, income_statement_df,
                   cur, converted_data, result_df, all_financial_data>>

\* lines 1268-1276 (1147-1155 in process_xbrl_file): the name of the
\* output file, save_to_parquet (lines 786-969) and the append to
\* generated_files
SaveToParquet ==
    /\ pc = "sorted"
    /\ IF Len(combined_df) = 0
       THEN /\ df_copy' = df_copy
            /\ generated_files' = generated_files
            /\ pc' = "done"
       ELSE /\ df_copy' =
                  StampReceipt(PrepareRecords(combined_df),
                      FormattedReceipt(
                          FinalReceiptDate(
                              IF EntryPoint = "process_xbrl_file_with_report_info"
                              THEN receipt_ymd ELSE <<>>,
                              xbrl_rcept_dt_mapping, xbrl.filename)))
            /\ generated_files' =
                  Append(generated_files,
                         generate_output_filename(metadata, report_nm))
            /\ pc' = "saved"
    /\ UNCHANGED <<batch_vars, directory_vars, receipt_vars,
                   xbrl, report_nm, receipt_ymd, xbrl_rcept_dt_mapping, metadata, balance_sheet_df, income_statement_df,
                   cur, converted_data, result_df, all_financial_data, combined_df>>

Next ==
    \/ RaiseFileNotFound
    \/ ExtractFinancialData
    \/ SkipEmptyStatement
    \/ PivotStatement
    \/ FilterStatement
    \/ SortStatement
    \/ ImproveHierarchy
    \/ ImproveHierarchyRaises
    \/ NothingToSave
    \/ SortCombinedData
    \/ SaveToParquet

Spec == Init /\ [][Next]_vars

TypeOK == pc \in {"start", "convert", "pivoted", "filtered", "combine",
                  "improved", "sorted", "saved", "done", "raised", "failed"}

(***************************************************************************)
(* The batch loop: XBRLBatchProcessor.process_all_xbrl_files_internal      *)
(* (xbrl_batch_processor.py, lines 454-502).                               *)
(***************************************************************************)
MaxCompanies == 2
MaxFiles == 2

\* an element of a company's list: a dict with file_path and report_nm
\* (dart_api_manager.py, lines 530-534) or the path itself (line 123)
XbrlInfos ==
    {[file_path |-> "a.xbrl", report_nm |-> TitleWithMarker, as_dict |-> TRUE],
     [file_path |-> "b.xbrl", report_nm |-> <<>>, as_dict |-> FALSE]}

\* the values of all_xbrl_files, in the order of the dict; the files of a
\* company are the distinct paths its folder holds
BatchInputs ==
    SeqsUpTo({files \in SeqsUpTo(XbrlInfos, MaxFiles) :
                 \A i, j \in 1..Len(files) :
                     files[i].file_path = files[j].file_path => i = j},
             MaxCompanies)

\* lines 471-476
ReportNmOf(xbrl_info) == IF xbrl_info.as_dict THEN xbrl_info.report_nm ELSE <<>>

\* lines 480-483: what the call of the processor can do; only
\* process_xbrl_file lets an exception out
CallOutcomes(xbrl_info) ==
    IF ReportNmOf(xbrl_info) # <<>> THEN {"generated", "empty"}
    ELSE {"generated", "empty", "raises"}

\* the position of the loops after the file f of the company c
NextPosition(files, c, f) ==
    IF f < Len(files[c]) THEN <<c, f + 1>> ELSE <<c + 1, 1>>

\* the exception ends the batch
AfterException_Abort(files, c, f) == <<Len(files) + 1, 1>>

\* lines 497-501: the handler ends with continue
AfterException(files, c, f) == NextPosition(files, c, f)

\* the loops are at a file
AtFile ==
    /\ company_no <= Len(all_xbrl_files)
    /\ file_no <= Len(all_xbrl_files[company_no])

XbrlInfo == all_xbrl_files[company_no][file_no]

\* line 466, once for a company with files
CountCompany(st) ==
    IF file_no = 1
    THEN [st EXCEPT !.companies_processed = st.companies_processed + 1]
    ELSE st

\* lines 486-488
CountFiles(st) ==
    [st EXCEPT !.xbrl_files_processed = st.xbrl_files_processed + 1,
               !.csv_files_generated = st.csv_files_generated + 1]

\* lines 498-500
AppendError(st, xbrl_file_path) ==
    [st EXCEPT !.errors = Append(st.errors, xbrl_file_path)]

Attempt(outcome) ==
    Append(attempted,
           [company |-> company_no, file |-> file_no, outcome |-> outcome])

BatchInit ==
    /\ all_xbrl_files \in BatchInputs
    /\ company_no = 1
    /\ file_no = 1
    /\ stats = NoStats
    /\ all_csv_files = <<>>
    /\ attempted = <<>>
    /\ xbrl = Filing(<<>>, EmptyDataFrame, EmptyDataFrame)
    /\ report_nm = <<>>
    /\ receipt_ymd = <<>>
    /\ xbrl_rcept_dt_mapping = EmptyMapping
    /\ generated_files = <<>>
    /\ pc = "start"
    /\ metadata = NoMetadata
    /\ balance_sheet_df = EmptyDataFrame
    /\ income_statement_df = EmptyDataFrame
    /\ cur = "BS"
    /\ converted_data = <<>>
    /\ result_df = <<>>
    /\ all_financial_data = <<>>
    /\ combined_df = <<>>
    /\ df_copy = <<>>
    /\ DirectoryIdle
    /\ ReceiptIdle

\* lines 463-464: a company without files is passed over
SkipCompany ==
    /\ company_no <= Len(all_xbrl_files)
    /\ all_xbrl_files[company_no] = <<>>
    /\ company_no' = company_no + 1
    /\ file_no' = 1
    /\ UNCHANGED <<all_xbrl_files, stats, all_csv_files, attempted, call_vars,
                   xbrl_rcept_dt_mapping, directory_vars, receipt_vars>>

\* the loops move to <<c, f>>
MoveTo(position) ==
    /\ company_no' = position[1]
    /\ file_no' = position[2]

\* lines 478-495: the file is generated and moved to the results
ProcessFileGenerated ==
    /\ AtFile
    /\ "generated" \in CallOutcomes(XbrlInfo)
    /\ stats' = CountFiles(CountCompany(stats))
    /\ all_csv_files' = Append(all_csv_files, XbrlInfo.file_path)
    /\ attempted' = Attempt("generated")
    /\ MoveTo(NextPosition(all_xbrl_files, company_no, file_no))
    /\ UNCHANGED <<all_xbrl_files, call_vars, xbrl_rcept_dt_mapping,
                   directory_vars, receipt_vars>>

\* lines 478-485: the processor returns an empty list
ProcessFileEmpty ==
    /\ AtFile
    /\ "empty" \in CallOutcomes(XbrlInfo)
    /\ stats' = CountCompany(stats)
    /\ attempted' = Attempt("empty")
    /\ MoveTo(NextPosition(all_xbrl_files, company_no, file_no))
    /\ UNCHANGED <<all_xbrl_files, all_csv_files, call_vars,
                   xbrl_rcept_dt_mapping, directory_vars, receipt_vars>>

\* lines 478-483 and 497-501: the processor raises
ProcessFileRaises ==
    /\ AtFile
    /\ "raises" \in CallOutcomes(XbrlInfo)
    /\ stats' = AppendError(CountCompany(stats), XbrlInfo.file_path)
    /\ attempted' = Attempt("raises")
    /\ MoveTo(AfterException(all_xbrl_files, company_no, file_no))
    /\ UNCHANGED <<all_xbrl_files, all_csv_files, call_vars,
                   xbrl_rcept_dt_mapping, directory_vars, receipt_vars>>

\* lines 486-494 and 497-501: shutil.move raises after the counts
ProcessFileMoveFails ==
    /\ AtFile
    /\ "generated" \in CallOutcomes(XbrlInfo)
    /\ stats' = AppendError(CountFiles(CountCompany(stats)), XbrlInfo.file_path)
    /\ attempted' = Attempt("move_fails")
    /\ MoveTo(AfterException(all_xbrl_files, company_no, file_no))
    /\ UNCHANGED <<all_xbrl_files, all_csv_files, call_vars,
                   xbrl_rcept_dt_mapping, directory_vars, receipt_vars>>

BatchNext ==
    \/ SkipCompany
    \/ ProcessFileGenerated
    \/ ProcessFileEmpty
    \/ ProcessFileRaises
    \/ ProcessFileMoveFails

BatchSpec == BatchInit /\ [][BatchNext]_vars
(***************************************************************************)
(* The entity directory: _load_corp_name_mapping (lines 197-236) and the   *)
(* name resolution of extract_metadata_from_xbrl (lines 276-306).          *)
(***************************************************************************)
Code00171636 == <<"0", "0", "1", "7", "1", "6", "3", "6">>
Code00126380 == <<"0", "0", "1", "2", "6", "3", "8", "0">>
\* str(corp['corp_code']) of an entry whose code is a JSON number
Key171636 == <<"1", "7", "1", "6", "3", "6">>

CorpCodes == {Code00171636, Code00126380}
CorpKeys == {Code00171636, Code00126380, Key171636}
CorpNames == {<<"H">>, <<"P">>}

\* the dicts over some of the keys
Mappings(keys, values) ==
    UNION {[ks -> values] : ks \in SUBSET keys}

\* corp_list.json: absent from every path, or a list of entries
CorpLists ==
    {NoCorpList}
    \cup {[exists |-> TRUE, mapping |-> m] : m \in Mappings(CorpKeys, CorpNames)}

\* lines 197-236: the dict read from the first path that has the file, {}
\* when none has
load_corp_name_mapping(corp_list) ==
    IF corp_list.exists THEN corp_list.mapping ELSE EmptyMapping

\* s.lstrip('0')
RECURSIVE LStripZeros(_)
LStripZeros(s) ==
    IF Len(s) # 0 /\ Head(s) = "0" THEN LStripZeros(Tail(s)) ELSE s

\* f"Corp_{corp_code}"
Placeholder(corp_code) == <<"C", "o", "r", "p", "_">> \o corp_code

\* the keys of lines 297-301: the same code without its leading zeros
ZeroStrippedKeys(mapping, corp_code) ==
    {key \in DOMAIN mapping : LStripZeros(key) = LStripZeros(corp_code)}

\* the reloaded directory is not looked up
ResolveName_NoLookupAfterReload(mapping, corp_list, corp_code) ==
    IF corp_code \in DOMAIN mapping
    THEN [corp_name |-> mapping[corp_code], mapping |-> mapping,
          hit |-> TRUE, reloads |-> 0]
    ELSE [corp_name |-> Placeholder(corp_code),
          mapping |-> load_corp_name_mapping(corp_list),
          hit |-> FALSE, reloads |-> 1]

\* a miss reloads nothing
ResolveName_KeepsDirectory(mapping, corp_list, corp_code) ==
    IF corp_code \in DOMAIN mapping
    THEN [corp_name |-> mapping[corp_code], mapping |-> mapping,
          hit |-> TRUE, reloads |-> 0]
    ELSE [corp_name |-> Placeholder(corp_code), mapping |-> mapping,
          hit |-> FALSE, reloads |-> 0]
\* lines 281-306: corp_name, self.corp_name_mapping after the call, whether
\* the first lookup found the code, and the number of reloads.  The loop
\* of line 298 takes the first key of the dict that matches; the
\* directories of the model hold one such key at most.
ResolveName(mapping, corp_list, corp_code) ==
    IF corp_code \in DOMAIN mapping
    THEN [corp_name |-> mapping[corp_code], mapping |-> mapping,
          hit |-> TRUE, reloads |-> 0]
    ELSE LET reloaded == load_corp_name_mapping(corp_list)
         IN  [corp_name |->
                  IF corp_code \in DOMAIN reloaded THEN reloaded[corp_code]
                  ELSE IF ZeroStrippedKeys(reloaded, corp_code) # {}
                       THEN reloaded[CHOOSE key \in ZeroStrippedKeys(reloaded, corp_code) : TRUE]
                       ELSE Placeholder(corp_code),
              mapping |-> reloaded,
              hit |-> FALSE, reloads |-> 1]

\* a processor constructed with corp_list.json as it was then (line 83)
DirectoryInit ==
    /\ corp_list_json \in CorpLists
    /\ corp_name_mapping = load_corp_name_mapping(corp_list_json)
    /\ resolved = <<>>
    /\ xbrl = Filing(<<>>, EmptyDataFrame, EmptyDataFrame)
    /\ report_nm = <<>>
    /\ receipt_ymd = <<>>
    /\ xbrl_rcept_dt_mapping = EmptyMapping
    /\ generated_files = <<>>
    /\ pc = "start"
    /\ metadata = NoMetadata
    /\ balance_sheet_df = EmptyDataFrame
    /\ income_statement_df = EmptyDataFrame
    /\ cur = "BS"
    /\ converted_data = <<>>
    /\ result_df = <<>>
    /\ all_financial_data = <<>>
    /\ combined_df = <<>>
    /\ df_copy = <<>>
    /\ BatchIdle
    /\ ReceiptIdle

\* the owner of the directory replaces corp_list.json
RewriteCorpList ==
    /\ corp_list_json' \in CorpLists \ {corp_list_json}
    /\ UNCHANGED <<corp_name_mapping, resolved, call_vars,
                   xbrl_rcept_dt_mapping, batch_vars, receipt_vars>>

\* lines 260-306 for a filing of the entity corp_code
ExtractMetadata ==
    \E corp_code \in CorpCodes :
        LET r == ResolveName(corp_name_mapping, corp_list_json, corp_code)
        IN  /\ resolved' = [corp_code |-> corp_code, corp_name |-> r.corp_name,
                            hit |-> r.hit, reloads |-> r.reloads]
            /\ corp_name_mapping' = r.mapping
            /\ UNCHANGED <<corp_list_json, call_vars, xbrl_rcept_dt_mapping,
                           batch_vars, receipt_vars>>

DirectoryNext ==
    \/ RewriteCorpList
    \/ ExtractMetadata

DirectorySpec == DirectoryInit /\ [][DirectoryNext]_vars
(***************************************************************************)
(* Calls of register_xbrl_rcept_dt (lines 91-105) and of                   *)
(* get_rcept_dt_by_xbrl_path (lines 107-152) on one processor.             *)
(***************************************************************************)
MaxCalls == 3

\* the files of two filings of one entity and period, each in the
\* directory of its receipt number (dart_api_manager.py, line 388), and a
\* file of another entity
FilingPaths ==
    {<<"1", "/", "a", ".", "x">>, <<"2", "/", "a", ".", "x">>,
     <<"1", "/", "b", ".", "x">>}

\* rcept_dt: two dates and the empty string
ReceiptDates == {D20250813, D20250701, <<>>}

ReceiptInit ==
    /\ xbrl_rcept_dt_mapping = EmptyMapping
    /\ registered = <<>>
    /\ lookup = <<>>
    /\ xbrl = Filing(<<>>, EmptyDataFrame, EmptyDataFrame)
    /\ report_nm = <<>>
    /\ receipt_ymd = <<>>
    /\ generated_files = <<>>
    /\ pc = "start"
    /\ metadata = NoMetadata
    /\ balance_sheet_df = EmptyDataFrame
    /\ income_statement_df = EmptyDataFrame
    /\ cur = "BS"
    /\ converted_data = <<>>
    /\ result_df = <<>>
    /\ all_financial_data = <<>>
    /\ combined_df = <<>>
    /\ df_copy = <<>>
    /\ BatchIdle
    /\ DirectoryIdle

\* a call of register_xbrl_rcept_dt
RegisterReceipt ==
    /\ Len(registered) < MaxCalls
    /\ \E xbrl_file_path \in FilingPaths, rcept_dt \in ReceiptDates :
          /\ xbrl_rcept_dt_mapping' =
                register_xbrl_rcept_dt(xbrl_rcept_dt_mapping, xbrl_file_path, rcept_dt)
          /\ registered' = Append(registered,
                                  [path |-> xbrl_file_path, rcept_dt |-> rcept_dt])
    /\ UNCHANGED <<lookup, call_vars, batch_vars, directory_vars>>

\* a call of get_rcept_dt_by_xbrl_path; calls is the number of
\* registrations made before it
GetReceipt ==
    /\ \E xbrl_file_path \in FilingPaths :
          lookup' = [path |-> xbrl_file_path,
                     value |-> get_rcept_dt_by_xbrl_path(xbrl_rcept_dt_mapping,
                                                         xbrl_file_path),
                     calls |-> Len(registered)]
    /\ UNCHANGED <<xbrl_rcept_dt_mapping, registered, call_vars, batch_vars,
                   directory_vars>>

ReceiptNext ==
    \/ RegisterReceipt
    \/ GetReceipt

ReceiptSpec == ReceiptInit /\ [][ReceiptNext]_vars
(***************************************************************************)
(* Properties of the pivot (convert_to_pivot_format, lines 538-638).       *)
(***************************************************************************)
\* every sequence of records the call holds
RecordSeqs ==
    {converted_data, result_df, combined_df}
    \cup {all_financial_data[k] : k \in 1..Len(all_financial_data)}

\* the matrix a record of report type rt was pivoted from
DfOf(rt) == IF rt = "BS" THEN balance_sheet_df ELSE income_statement_df

\* the cell a record was pivoted from
SourceCell(r) == CellAt(DfOf(r.report_type), r.row, r.col)

\* C1: every record emitted by the pivot, and so every record that reaches
\* serialization, has a numeric amount different from zero; the cell it was
\* pivoted from is never null, never a non-numeric value and never zero.
C1_AmountNonZero ==
    \A recs \in RecordSeqs : \A k \in 1..Len(recs) :
        /\ recs[k].amount \in Int
        /\ recs[k].amount # 0
        /\ SourceCell(recs[k]).kind \in {"num", "numstr"}
        /\ SourceCell(recs[k]).n = recs[k].amount

\* the data columns of the matrix being pivoted
CurrentDataColumns == analyze_dataframe_structure(CurrentDf).data_columns

\* the cells of data columns that are null, non-numeric or zero
SkippedCells ==
    {c \in (1..Len(CurrentDf.rows)) \X (1..Len(CurrentDataColumns)) :
        LET v == CellAt(CurrentDf, c[1], CurrentDataColumns[c[2]])
        IN  v.kind \in {"null", "str"} \/ v.n = 0}

\* C1 witness: the pivot has emitted a record from a matrix that also holds a
\* null, a non-numeric and a zero cell under date columns
C1_Witness ==
    /\ pc = "pivoted"
    /\ Len(converted_data) > 0
    /\ \E c \in SkippedCells :
          /\ CellAt(CurrentDf, c[1], CurrentDataColumns[c[2]]) = Num(0)
          /\ CurrentDataColumns[c[2]] = DateKey(D20250630, ConsolidatedFS)

\* the claim's description of a key that is pivoted: a plain string, or a
\* (date-token, scope-token) pair whose date-token is YYYYMMDD or
\* YYYYMMDD-YYYYMMDD
IsCompoundKey(col) == col.typ = "tuple" /\ Len(col.items) = 2

HasDateForm(token) ==
    \/ Len(token) = 8 /\ \A i \in 1..8 : token[i] \in Digits
    \/ /\ Len(token) = 17
       /\ \A i \in (1..8) \cup (10..17) : token[i] \in Digits
       /\ token[9] = "-"

KeyQualifies(col) ==
    \/ col.typ = "str"
    \/ IsCompoundKey(col) /\ col.items[1].typ = "str" /\ HasDateForm(col.items[1].s)

\* the (row, data column) cells the claim says give a record
QualifyingCells ==
    {c \in (1..Len(CurrentDf.rows)) \X (1..Len(CurrentDataColumns)) :
        /\ c \notin SkippedCells
        /\ KeyQualifies(CurrentDataColumns[c[2]])}

\* C2: before period filtering the pivot has emitted exactly one record for
\* each (row, data column) cell whose value is defined, numeric and non-zero
\* and whose key is a plain string or a compound key with a date-token of
\* the form YYYYMMDD or YYYYMMDD-YYYYMMDD, and no record for any other cell;
\* a compound key with another date-token gives no record.
C2_OneRecordPerQualifyingCell ==
    pc = "pivoted" =>
        /\ Len(converted_data) = Cardinality(QualifyingCells)
        /\ \A c \in QualifyingCells :
              Cardinality({k \in 1..Len(converted_data) :
                  /\ converted_data[k].row = c[1]
                  /\ converted_data[k].col = CurrentDataColumns[c[2]]}) = 1
        /\ \A k \in 1..Len(converted_data) :
              \E c \in QualifyingCells :
                  /\ converted_data[k].row = c[1]
                  /\ converted_data[k].col = CurrentDataColumns[c[2]]
        /\ \A k \in 1..Len(converted_data) :
              IsCompoundKey(converted_data[k].col)
                  => HasDateForm(converted_data[k].col.items[1].s)

\* C2 witness: a numeric non-zero cell under a compound key whose date-token
\* has seven digits, next to a cell that gave a record
C2_Witness ==
    /\ pc = "pivoted"
    /\ Len(converted_data) > 0
    /\ \E i \in 1..Len(CurrentDf.rows) :
          /\ DateKey(D2025063, ConsolidatedFS) \in
                 {CurrentDataColumns[j] : j \in 1..Len(CurrentDataColumns)}
          /\ CellAt(CurrentDf, i, DateKey(D2025063, ConsolidatedFS)) = Num(12345)

(***************************************************************************)
(* Properties of the period filter (lines 666-717).                        *)
(***************************************************************************)
\* the records of recs, as a set
RecordsOf(recs) == {recs[k] : k \in 1..Len(recs)}

P2025_06 == <<"2", "0", "2", "5", "-", "0", "6">>
P2024_06 == <<"2", "0", "2", "4", "-", "0", "6">>
T202506 == <<"2", "0", "2", "5", "0", "6">>
T202406 == <<"2", "0", "2", "4", "0", "6">>

\* the target period of the call, as the inputs give it
TargetOfInputs ==
    IF report_nm = TitleWithMarker THEN T202506
    ELSE IF xbrl.period_columns # <<>> THEN T202406
    ELSE <<>>

\* recs is the subsequence of all made of the records that satisfy Keep
IsSubsequenceKeeping(recs, all, Keep(_)) ==
    /\ RecordsOf(recs) = {r \in RecordsOf(all) : Keep(r)}
    /\ Len(recs) = Cardinality({k \in 1..Len(all) : Keep(all[k])})
    /\ \A i, j \in 1..Len(recs) :
          i < j => \E a, b \in 1..Len(all) : a < b /\ all[a] = recs[i] /\ all[b] = recs[j]

\* C3: when a 6-digit target YYYYMM is determined, the filter keeps a
\* pivoted record if and only if its period contains 'YYYY-MM', and neither
\* adds nor alters a record; with target 2025-06 the records of a 2024-06-30
\* column go and those of a 2025-06-30 column stay.
C3_FilterKeepsMatchingPeriods ==
    (pc = "filtered" /\ Len(TargetOfInputs) = 6) =>
        LET pattern == SubSeq(TargetOfInputs, 1, 4) \o <<"-">> \o SubSeq(TargetOfInputs, 5, 6)
        IN  /\ IsSubsequenceKeeping(result_df, converted_data,
                                    LAMBDA r : Contains(r.period, pattern))
            /\ TargetOfInputs = T202506 =>
                  \A r \in RecordsOf(converted_data) :
                      /\ r.col = DateKey(D20240630, ConsolidatedFS) => r \notin RecordsOf(result_df)
                      /\ r.col = DateKey(D20250630, ConsolidatedFS) => r \in RecordsOf(result_df)

\* C3 witness: records of a 2024-06-30 and of a 2025-06-30 column were
\* pivoted and the filter for 2025-06 has run
C3_Witness ==
    /\ pc = "filtered"
    /\ TargetOfInputs = T202506
    /\ \E r \in RecordsOf(converted_data) : r.col = DateKey(D20240630, ConsolidatedFS)
    /\ \E r \in RecordsOf(converted_data) : r.col = DateKey(D20250630, ConsolidatedFS)
    /\ Len(result_df) < Len(converted_data)

\* C4: the target is the YYYYMM of the title's (YYYY.MM) marker when the
\* title gives one, otherwise reporting_year + reporting_month when they
\* are 4 and 2 characters long; when neither gives six characters the
\* filter is skipped and every pivoted record passes.
C4_TargetPriority ==
    pc = "filtered" =>
        /\ report_nm = TitleWithMarker =>
              IsSubsequenceKeeping(result_df, converted_data,
                                   LAMBDA r : Contains(r.period, P2025_06))
        /\ (report_nm # TitleWithMarker /\ metadata.yyyy = <<"2", "0", "2", "4">>
                /\ metadata.month = <<"0", "6">>) =>
              IsSubsequenceKeeping(result_df, converted_data,
                                   LAMBDA r : Contains(r.period, P2024_06))
        /\ (report_nm # TitleWithMarker /\ metadata.yyyy = <<>> /\ metadata.month = <<>>) =>
              result_df = converted_data
        /\ \/ metadata.yyyy = <<"2", "0", "2", "4">> /\ metadata.month = <<"0", "6">>
           \/ metadata.yyyy = <<>> /\ metadata.month = <<>>

\* C4 witness: a title with the marker 2025.06 and a reporting period
\* 2024-06 compete, and records of both periods were pivoted
C4_Witness ==
    /\ pc = "filtered"
    /\ report_nm = TitleWithMarker
    /\ metadata.yyyy = <<"2", "0", "2", "4">>
    /\ \E r \in RecordsOf(converted_data) : Contains(r.period, P2024_06)
    /\ \E r \in RecordsOf(converted_data) : Contains(r.period, P2025_06)

\* C5: the period filter is idempotent: filtering the filtered records again
\* with the same target gives the same records.
C5_FilterIdempotent ==
    pc = "filtered" => PeriodFilter(result_df, CurrentMetadata) = result_df

\* C5 witness: the filter has removed some records and kept others
C5_Witness ==
    /\ pc = "filtered"
    /\ 0 < Len(result_df)
    /\ Len(result_df) < Len(converted_data)

(***************************************************************************)
(* Properties of improve_hierarchy_structure (lines 1005-1089).            *)
(***************************************************************************)
\* the records improve_hierarchy_structure was called with
ImproveInput == Concat(all_financial_data)

\* the cell a record came from names it through the pipeline
Id(r) == <<r.report_type, r.row, r.col>>

Improved == pc \in {"improved", "sorted"}

\* a record of the statement of position with class1 = assets-total and an
\* empty class2
IsAssetsTotalRecord(r) ==
    r.report_type = "BS" /\ r.class1 = AssetsTotal /\ r.class2 = ""

\* r is, once relabelled, a child of the section: class1 is the section's
\* overview or total and class2 is neither empty nor the total
IsChildOf(r, overview, total) ==
    /\ r.report_type = "BS"
    /\ r.class1 \in {overview, total}
    /\ r.class2 \notin {"", total}

\* the first application removes the lowest child of the section and
\* leaves other children
LosesFirstChild(recs, overview, total) ==
    LET children == {r \in RecordsOf(recs) : IsChildOf(r, overview, total)}
        kept == {r \in children : r.label_ko # EquityAndLiabilitiesTotal}
    IN  /\ kept # {}
        /\ \E r \in children \ kept : \A q \in kept : r.order_no < q.order_no

\* C6, as claimed: applying the normalization twice gives the same records
\* as applying it once.
C6_Idempotent ==
    pc = "improved" => improve_hierarchy_structure(combined_df) = combined_df

\* C6, amended: a second application leaves the records, their class1 and
\* their class2 as they are; it leaves the ordinals as they are too, unless
\* the first application removed the lowest child of the liabilities or of
\* the equity section and left other children of that section.
C6_IdempotentUnlessFirstChildRemoved ==
    pc = "improved" =>
        LET twice == improve_hierarchy_structure(combined_df)
        IN  /\ Len(twice) = Len(combined_df)
            /\ \A k \in 1..Len(twice) :
                  [twice[k] EXCEPT !.order_no = 0] = [combined_df[k] EXCEPT !.order_no = 0]
            /\ (/\ ~LosesFirstChild(ImproveInput, LiabilitiesOverview, LiabilitiesTotal)
                /\ ~LosesFirstChild(ImproveInput, EquityOverview, EquityTotal))
                  => twice = combined_df

\* C6 witness: the first application has relabelled, renumbered and removed
\* records, and no section lost its first child
C6_Witness ==
    /\ pc = "improved"
    /\ ~LosesFirstChild(ImproveInput, LiabilitiesOverview, LiabilitiesTotal)
    /\ ~LosesFirstChild(ImproveInput, EquityOverview, EquityTotal)
    /\ Len(combined_df) < Len(ImproveInput)
    /\ \E r \in RecordsOf(combined_df) : IsAssetsTotalRecord(r) /\ r.row > 1
    /\ \E r \in RecordsOf(combined_df) :
          r.class1 = LiabilitiesTotal /\ r.class2 = "" /\ r.order_no # r.row

\* C7, as claimed: a record of the statement of position whose class1 and
\* class2 are both the assets overview ends with class1 = assets-total, an
\* empty class2 and ordinal 0.
C7_OverviewPairBecomesTotal ==
    Improved =>
        \A r \in RecordsOf(ImproveInput) :
            (r.report_type = "BS" /\ r.class1 = AssetsOverview /\ r.class2 = AssetsOverview)
                => \E q \in RecordsOf(combined_df) :
                       /\ Id(q) = Id(r)
                       /\ q.class1 = AssetsTotal
                       /\ q.class2 = ""
                       /\ q.order_no = 0

\* C7, amended: a record of the statement of position whose class1 is the
\* assets overview and whose class2 is the assets-total label ends with
\* class1 = assets-total, an empty class2 and ordinal 0; one whose class2 is
\* the assets overview too ends with class1 = assets-total and keeps its
\* class2 and its ordinal.
C7_OverviewOverTotalBecomesTotal ==
    Improved =>
        \A r \in RecordsOf(ImproveInput) :
            (r.report_type = "BS" /\ r.class1 = AssetsOverview
                 /\ r.label_ko # EquityAndLiabilitiesTotal) =>
                /\ r.class2 = AssetsTotal =>
                      \E q \in RecordsOf(combined_df) :
                          /\ Id(q) = Id(r)
                          /\ q.class1 = AssetsTotal
                          /\ q.class2 = ""
                          /\ q.order_no = 0
                /\ r.class2 = AssetsOverview =>
                      \E q \in RecordsOf(combined_df) :
                          /\ Id(q) = Id(r)
                          /\ q.class1 = AssetsTotal
                          /\ q.class2 = AssetsOverview
                          /\ q.order_no = r.order_no

\* C7 witness: both kinds of record went through the normalization, the
\* first with an ordinal other than 0
C7_Witness ==
    /\ pc = "improved"
    /\ \E r \in RecordsOf(ImproveInput) :
          /\ r.report_type = "BS"
          /\ r.class1 = AssetsOverview
          /\ r.class2 = AssetsTotal
          /\ r.order_no > 1
    /\ \E r \in RecordsOf(ImproveInput) :
          r.report_type = "BS" /\ r.class1 = AssetsOverview /\ r.class2 = AssetsOverview

\* C8, as claimed: no record whose label_local is the combined
\* equity-and-liabilities-total label remains.
C8_NoCombinedTotalRecord ==
    Improved =>
        \A q \in RecordsOf(combined_df) : q.label_ko # EquityAndLiabilitiesTotal

\* C8, amended: no record of the statement of position whose label_local is
\* the combined equity-and-liabilities-total label remains, whatever its
\* ordinal was.
C8_NoCombinedTotalPositionRecord ==
    Improved =>
        \A q \in RecordsOf(combined_df) :
            q.report_type = "BS" => q.label_ko # EquityAndLiabilitiesTotal

\* C8 witness: records of the statement of position with the combined label
\* and two different ordinals went into the normalization
C8_Witness ==
    /\ pc = "improved"
    /\ \E r, q \in RecordsOf(ImproveInput) :
          /\ r.report_type = "BS" /\ q.report_type = "BS"
          /\ r.label_ko = EquityAndLiabilitiesTotal
          /\ q.label_ko = EquityAndLiabilitiesTotal
          /\ r.order_no # q.order_no

\* C9, as claimed: at most one record of the statement of position has
\* class1 = assets-total and an empty class2.
C9_AtMostOneAssetsTotal ==
    Improved =>
        Cardinality({k \in 1..Len(combined_df) : IsAssetsTotalRecord(combined_df[k])}) <= 1

\* the records that the normalization turns into assets-total records
BecomesAssetsTotal(r) ==
    /\ r.report_type = "BS"
    /\ r.class1 \in {AssetsOverview, AssetsTotal}
    /\ r.class2 \in {AssetsTotal, ""}
    /\ r.label_ko # EquityAndLiabilitiesTotal

\* C9, amended: the records with class1 = assets-total and an empty class2
\* are the records pivoted from the rows whose class1 is the assets overview
\* or total and whose class2 is the assets-total label or empty, one for
\* each retained cell of such a row; there is at most one when the filing
\* has one such row with one retained cell.
C9_OneAssetsTotalPerRetainedCell ==
    Improved =>
        LET sources == {r \in RecordsOf(ImproveInput) : BecomesAssetsTotal(r)}
            totals == {k \in 1..Len(combined_df) : IsAssetsTotalRecord(combined_df[k])}
        IN  /\ {Id(combined_df[k]) : k \in totals} = {Id(r) : r \in sources}
            /\ Cardinality(totals) = Cardinality(sources)
            /\ Cardinality(sources) <= 1 => Cardinality(totals) <= 1

\* C9 witness: one assets-total row has given two such records, one for
\* each scope of the same date
C9_Witness ==
    /\ pc = "improved"
    /\ \E q, r \in RecordsOf(combined_df) :
          /\ IsAssetsTotalRecord(q) /\ IsAssetsTotalRecord(r)
          /\ q.row = r.row
          /\ q.fs_type = FsConsolidated /\ r.fs_type = FsSeparate
          /\ q.period = r.period

\* C10: every record of the statement of position with class1 = assets-total
\* and an empty class2 has ordinal 0, and in the final order it precedes
\* every other record of the statement of position.
C10_AssetsTotalFirst ==
    /\ Improved =>
          \A q \in RecordsOf(combined_df) : IsAssetsTotalRecord(q) => q.order_no = 0
    /\ pc = "sorted" =>
          \A i, j \in 1..Len(combined_df) :
              (/\ IsAssetsTotalRecord(combined_df[i])
               /\ combined_df[j].report_type = "BS"
               /\ ~IsAssetsTotalRecord(combined_df[j])) => i < j

\* C10 witness: the assets-total record came from a row below the row of
\* another record of the statement of position, and the final sort has run
C10_Witness ==
    /\ pc = "sorted"
    /\ \E q, r \in RecordsOf(combined_df) :
          /\ IsAssetsTotalRecord(q)
          /\ r.report_type = "BS"
          /\ ~IsAssetsTotalRecord(r)
          /\ r.row < q.row

\* a record without the three fields the normalization may write
Framed(r) == [r EXCEPT !.class1 = "", !.class2 = "", !.order_no = 0]

\* C11: the normalization leaves every record of the income statement as it
\* is and in the result; on records of the statement of position it changes
\* class1, class2 and the ordinal only; the only records it removes are
\* records of the statement of position whose label_local is the combined
\* equity-and-liabilities-total label.
C11_NormalizationFrame ==
    pc = "improved" =>
        LET kept == SelectSeq(ImproveInput,
                        LAMBDA r : ~(r.report_type = "BS"
                                     /\ r.label_ko = EquityAndLiabilitiesTotal))
        IN  /\ Len(combined_df) = Len(kept)
            /\ \A k \in 1..Len(kept) :
                  /\ kept[k].report_type = "CIS" => combined_df[k] = kept[k]
                  /\ kept[k].report_type = "BS" => Framed(combined_df[k]) = Framed(kept[k])
                  /\ combined_df[k].amount = kept[k].amount
                  /\ combined_df[k].period = kept[k].period
                  /\ combined_df[k].fs_type = kept[k].fs_type
                  /\ combined_df[k].concept_id = kept[k].concept_id

\* C11 witness: the normalization has rewritten a record of the statement of
\* position, removed another, and passed a record of the income statement
\* that carries the combined label
C11_Witness ==
    /\ pc = "improved"
    /\ Len(combined_df) < Len(ImproveInput)
    /\ \E r \in RecordsOf(ImproveInput) : r.report_type = "BS" /\ r \notin RecordsOf(combined_df)
                                          /\ r.label_ko # EquityAndLiabilitiesTotal
    /\ \E r \in RecordsOf(combined_df) :
          r.report_type = "CIS" /\ r.label_ko = EquityAndLiabilitiesTotal

(***************************************************************************)
(* Properties of the decoding of column keys (lines 586-628).              *)
(***************************************************************************)
\* YYYYMMDD written YYYY-MM-DD
Dashed(t) ==
    <<t[1], t[2], t[3], t[4], "-", t[5], t[6], "-", t[7], t[8]>>

RangeToken20250101_20250630 == D20250101 \o <<"-">> \o D20250630

Period20250101_20250630 ==
    <<"2", "0", "2", "5", "-", "0", "1", "-", "0", "1", " ", "~", " ",
      "2", "0", "2", "5", "-", "0", "6", "-", "3", "0">>

\* the cells of the matrix under compound keys with a valid date-token that
\* hold a numeric value other than zero
CompoundCells ==
    {c \in QualifyingCells : IsCompoundKey(CurrentDataColumns[c[2]])}

\* C12: for a compound key (date-token, scope-token) with a valid date-token
\* and a numeric cell value v other than zero, the record has amount v and
\* period YYYY-MM-DD for a single date, YYYY-MM-DD ~ YYYY-MM-DD for a range;
\* the key ("20250101-20250630", ("consolidated",)) with value 12345 gives
\* period "2025-01-01 ~ 2025-06-30", scope consolidated, amount 12345.
C12_CompoundKeyPeriodAndAmount ==
    pc = "pivoted" =>
        \A c \in CompoundCells :
            LET col == CurrentDataColumns[c[2]]
                t == col.items[1].s
                v == CellAt(CurrentDf, c[1], col)
            IN  \E k \in 1..Len(converted_data) :
                    LET r == converted_data[k]
                    IN  /\ r.row = c[1] /\ r.col = col
                        /\ r.amount = v.n
                        /\ Len(t) = 8 => r.period = Dashed(t)
                        /\ Len(t) = 17 =>
                              r.period = Dashed(SubSeq(t, 1, 8)) \o <<" ", "~", " ">>
                                         \o Dashed(SubSeq(t, 10, 17))
                        /\ (col = DateKey(RangeToken20250101_20250630, ConsolidatedFS)
                                /\ v = Num(12345)) =>
                              /\ r.period = Period20250101_20250630
                              /\ r.fs_type = FsConsolidated
                              /\ r.amount = 12345

\* C12 witness: the pivot has made records for the cell 12345 under the key
\* ("20250101-20250630", ("consolidated",)) and for a cell under a single date
C12_Witness ==
    /\ pc = "pivoted"
    /\ \E r \in RecordsOf(converted_data) :
          /\ r.col = DateKey(RangeToken20250101_20250630, ConsolidatedFS)
          /\ r.amount = 12345
    /\ \E r \in RecordsOf(converted_data) :
          IsCompoundKey(r.col) /\ Len(r.col.items[1].s) = 8

\* the scope-token holds the marker of the consolidated statements
ScopeHasMarker(tok) ==
    \/ tok.typ = "str" /\ Contains(tok.s, YeonGyeol)
    \/ tok.typ = "tuple" /\ \E k \in 1..Len(tok.items) :
           tok.items[k].typ = "str" /\ Contains(tok.items[k].s, YeonGyeol)

\* the key of a date without a scope label
UnscopedKey == Tup(<<Str(D20250630), Tup(<<>>)>>)

\* C13, as claimed: the scope of a record of a compound key is consolidated
\* if the scope-token contains the marker and separate in every other case.
C13_ScopeFromMarker ==
    pc = "pivoted" =>
        \A r \in RecordsOf(converted_data) :
            IsCompoundKey(r.col) =>
                r.fs_type = IF ScopeHasMarker(r.col.items[2])
                            THEN FsConsolidated ELSE FsSeparate

\* C13, amended: the scope is consolidated if the first label of the
\* scope-token contains the marker, and also if the scope-token holds no
\* label at all; it is separate when the first label does not contain the
\* marker.
C13_ScopeFromFirstLabel ==
    pc = "pivoted" =>
        \A r \in RecordsOf(converted_data) :
            IsCompoundKey(r.col) =>
                LET tok == r.col.items[2]
                IN  /\ (tok.typ # "tuple" \/ Len(tok.items) = 0) => r.fs_type = FsConsolidated
                    /\ (tok.typ = "tuple" /\ Len(tok.items) > 0) =>
                          r.fs_type = IF ScopeHasMarker(tok.items[1])
                                      THEN FsConsolidated ELSE FsSeparate

\* C13 witness: records of a key of the separate statements and of a key
\* without a scope label were pivoted
C13_Witness ==
    /\ pc = "pivoted"
    /\ \E r \in RecordsOf(converted_data) :
          r.col = DateKey(D20250630, SeparateFS) /\ r.fs_type = FsSeparate
    /\ \E r \in RecordsOf(converted_data) : r.col = UnscopedKey

\* C14: for a plain-string key the secondary parser gives period YYYY-MM-DD
\* for a key YYYYMMDD, period YYYY-MM-DD ~ YYYY-MM-DD with both dates for a
\* key YYYYMMDD-YYYYMMDD, and for any other string the string itself as the
\* period, with the scope taken from an embedded hint.
C14_PlainStringKeyShapes ==
    pc = "pivoted" =>
        \A r \in RecordsOf(converted_data) :
            r.col.typ = "str" =>
                LET t == r.col.s
                IN  /\ (Len(t) = 8 /\ HasDateForm(t)) => r.period = Dashed(t)
                    /\ (Len(t) = 17 /\ HasDateForm(t)) =>
                          r.period = Dashed(SubSeq(t, 1, 8)) \o <<" ", "~", " ">>
                                     \o Dashed(SubSeq(t, 10, 17))
                    /\ ~HasDateForm(t) =>
                          /\ r.period = t
                          /\ Contains(t, YeonGyeol) => r.fs_type = FsConsolidated
                          /\ (~Contains(t, YeonGyeol) /\ Contains(t, ByeolDo)) =>
                                r.fs_type = FsSeparate

(***************************************************************************)
(* Properties of analyze_dataframe_structure (lines 458-503).              *)
(***************************************************************************)
\* the result of the classification of the columns of the matrix
Structure == analyze_dataframe_structure(CurrentDf)

\* the column is the one mapped to some fixed field
InFixedFields(st, col) == \E f \in FieldNames : st.columns_info[f] = col

\* the column is a member of the data-column list
InDataColumns(st, col) ==
    \E k \in 1..Len(st.data_columns) : st.data_columns[k] = col

\* C15, as claimed: every column ends up in exactly one of the two results,
\* as the column mapped to a fixed field or as a member of the data-column
\* list; no column is left out of both.
C15_ClassificationTotal ==
    pc = "pivoted" =>
        LET st == Structure
        IN  \A j \in 1..Len(CurrentDf.columns) :
                LET col == CurrentDf.columns[j]
                IN  /\ InFixedFields(st, col) \/ InDataColumns(st, col)
                    /\ ~(InFixedFields(st, col) /\ InDataColumns(st, col))

\* the columns the loop passes over: a plain string that is one of the five
\* metadata names, and a key that is neither a string nor a 2-tuple
IsSkippedKey(col) ==
    \/ col.typ = "str" /\ col.s \in MetaNames
    \/ col.typ \notin {"str", "tuple"}
    \/ col.typ = "tuple" /\ Len(col.items) # 2

\* the fixed field a key names
FieldNamed(col) == IF col.typ = "str" THEN col.s ELSE col.items[2].s

\* a later column names the same fixed field
IsOverwritten(j) ==
    LET col == CurrentDf.columns[j]
    IN  /\ ~IsSkippedKey(col)
        /\ NamesField(col)
        /\ \E i \in (j + 1)..Len(CurrentDf.columns) :
              LET later == CurrentDf.columns[i]
              IN  ~IsSkippedKey(later) /\ NamesField(later)
                  /\ FieldNamed(later) = FieldNamed(col)

\* C15, amended: no column ends up in both results, and a column is left
\* out of both exactly when it is a plain string among the five metadata
\* names, or is neither a string nor a 2-tuple, or a later column is mapped
\* to the same fixed field; every other column is in exactly one.
C15_ClassificationTotalButSkipped ==
    pc = "pivoted" =>
        LET st == Structure
        IN  /\ \A j \in 1..Len(CurrentDf.columns) :
                  LET col == CurrentDf.columns[j]
                  IN  /\ ~(InFixedFields(st, col) /\ InDataColumns(st, col))
                      /\ (InFixedFields(st, col) \/ InDataColumns(st, col))
                            <=> ~(IsSkippedKey(col) \/ IsOverwritten(j))
            /\ Len(st.data_columns) =
                  Cardinality({j \in 1..Len(CurrentDf.columns) :
                                  InDataColumns(st, CurrentDf.columns[j])})

\* C15 witness: the classification has run over a flat matrix that holds the
\* metadata columns, a fixed field and a data column
C15_Witness ==
    /\ pc = "pivoted"
    /\ ~CurrentDf.multi
    /\ \E j \in 1..Len(CurrentDf.columns) : CurrentDf.columns[j] = Str(M_yyyy)
    /\ InFixedFields(Structure, Str(F_label_ko))
    /\ InDataColumns(Structure, Str(D20250630))

(***************************************************************************)
(* Properties of the final order (lines 1143-1148 and 1261-1266).          *)
(***************************************************************************)
\* C16: in the sequence of records handed to the serialization all records
\* of the statement of position precede all records of the income
\* statement, and within one report type the ordinals never decrease (every
\* ordinal is a number: add_metadata_to_dataframe numbers the rows).
C16_FinalOrder ==
    pc = "sorted" =>
        \A i, j \in 1..Len(combined_df) :
            i < j =>
                /\ combined_df[i].report_type = "CIS" => combined_df[j].report_type = "CIS"
                /\ combined_df[i].report_type = combined_df[j].report_type =>
                      combined_df[i].order_no <= combined_df[j].order_no
                /\ combined_df[i].order_no \in Int

\* C16 witness: records of both statements were sorted, and a record of the
\* statement of position stands before one of an earlier row
C16_Witness ==
    /\ pc = "sorted"
    /\ \E r \in RecordsOf(combined_df) : r.report_type = "CIS"
    /\ \E i, j \in 1..Len(combined_df) :
          /\ i < j
          /\ combined_df[i].report_type = "BS" /\ combined_df[j].report_type = "BS"
          /\ combined_df[i].row > combined_df[j].row

(***************************************************************************)
(* Properties of save_to_parquet (lines 786-969).                          *)
(***************************************************************************)
\* p is YYYY-MM-DD
IsInstantPeriod(p) ==
    /\ Len(p) = 10
    /\ \A i \in {1, 2, 3, 4, 6, 7, 9, 10} : p[i] \in Digits
    /\ p[5] = "-" /\ p[8] = "-"

\* p is YYYY-MM-DD ~ YYYY-MM-DD
IsRangePeriod(p) ==
    /\ Len(p) = 23
    /\ IsInstantPeriod(SubSeq(p, 1, 10))
    /\ SubSeq(p, 11, 13) = <<" ", "~", " ">>
    /\ IsInstantPeriod(SubSeq(p, 14, 23))

\* the calendar months a range touches
MonthsSpanned(p) ==
    (ParseInt(SubSeq(p, 14, 17)) - ParseInt(SubSeq(p, 1, 4))) * 12
    + ParseInt(SubSeq(p, 19, 20)) - ParseInt(SubSeq(p, 6, 7)) + 1

\* the bucket the period of a record of the income statement belongs to
BucketOf(p) ==
    IF IsInstantPeriod(p) \/ (IsRangePeriod(p) /\ MonthsSpanned(p) <= 3)
    THEN PeriodQuarterly ELSE PeriodCumulative

\* C17: after the serialization every record of the statement of position
\* has the period bucket 'current'; every record of the income statement
\* has 'quarterly' when its period is a range of at most 3 calendar months
\* or a single date, 'cumulative' when the range is longer or the period
\* cannot be parsed; no record of the income statement keeps its raw period.
C17_PeriodBuckets ==
    pc = "saved" =>
        \A k \in 1..Len(df_copy) :
            /\ df_copy[k].report_type = "BS" => df_copy[k].period = PeriodCurrent
            /\ df_copy[k].report_type = "CIS" =>
                  /\ df_copy[k].period = BucketOf(combined_df[k].period)
                  /\ df_copy[k].period # combined_df[k].period

\* the records of the set whose account_name is the label
RecordsNamed(label) ==
    {q \in RecordsOf(df_copy) : label # NullLabel /\ q.account_name = label}

\* the id found for a label is right
IsIdOfLabel(id, label) ==
    IF label = "" \/ RecordsNamed(label) = {}
    THEN id = ""
    ELSE \E q \in RecordsNamed(label) : id = q.account_id

\* C18: after the serialization, for each record and each level n of 1, 2,
\* 3, classN_id is the account_id of a record of the same set whose
\* account_name equals the record's classN label, and the empty string when
\* the label is empty or no record of the set has that account_name.
C18_ClassIds ==
    pc = "saved" =>
        \A r \in RecordsOf(df_copy) :
            /\ IsIdOfLabel(r.class1_id, r.class1)
            /\ IsIdOfLabel(r.class2_id, r.class2)
            /\ IsIdOfLabel(r.class3_id, r.class3)

\* C18 witness: a record whose class1 names another record of the set, whose
\* class2 is empty; and a record whose class1 names no record
C18_Witness ==
    /\ pc = "saved"
    /\ \E r, q \in RecordsOf(df_copy) :
          /\ r.class1 = q.account_name
          /\ r.class1_id = q.account_id
          /\ r.class1_id # ""
          /\ r.row # q.row
    /\ \E r \in RecordsOf(df_copy) : r.class2 = "" /\ r.class2_id = ""
    /\ \E r \in RecordsOf(df_copy) :
          r.class1 # "" /\ RecordsNamed(r.class1) = {} /\ r.class1_id = ""

\* C19, as claimed: on the records of the statement of position the
\* serializer rewrites account_name as step 1 of the normalization rewrites
\* class1: an overview placeholder becomes the total label of its section.
C19_AccountNameRewrittenAsStep1 ==
    pc = "saved" =>
        \A k \in 1..Len(df_copy) :
            df_copy[k].report_type = "BS" =>
                df_copy[k].account_name = TotalMapping_FromOverview(combined_df[k].label_ko)

\* C19, amended: on the records of the statement of position the serializer
\* rewrites an account_name that is the total label of assets, liabilities
\* or equity to the bare name of the section and rewrites class1 the same
\* way, so that account_name and class1 carry the same label for the total
\* of a section; every other account_name, an overview placeholder too, and
\* every record of the income statement stays as it is.
C19_TotalLabelsStripped ==
    pc = "saved" =>
        \A k \in 1..Len(df_copy) :
            LET r == combined_df[k]
                q == df_copy[k]
            IN  /\ r.report_type = "BS" =>
                      /\ q.account_name = TotalMapping(r.label_ko)
                      /\ q.class1 = TotalMapping(r.class1)
                      /\ (r.label_ko \in {AssetsTotal, LiabilitiesTotal, EquityTotal}
                              /\ r.class1 = r.label_ko) =>
                            (q.account_name = q.class1
                                /\ q.account_name \in {Assets, Liabilities, Equity})
                      /\ r.label_ko \in {AssetsOverview, LiabilitiesOverview, EquityOverview}
                            => q.account_name = r.label_ko
                /\ r.report_type = "CIS" =>
                      q.account_name = r.label_ko /\ q.class1 = r.class1

\* C19 witness: the total of the assets and a line of another name went
\* through the serializer, with a record of the income statement
C19_Witness ==
    /\ pc = "saved"
    /\ \E q \in RecordsOf(df_copy) :
          q.report_type = "BS" /\ q.account_name = Assets /\ q.class1 = Assets
    /\ \E q \in RecordsOf(df_copy) :
          q.report_type = "BS" /\ q.account_name \notin {Assets, Liabilities, Equity}
    /\ \E q \in RecordsOf(df_copy) : q.report_type = "CIS"

(***************************************************************************)
(* Properties of the entry points (lines 1091-1170 and 1172-1292).         *)
(***************************************************************************)
\* C20, as claimed: for every input, a missing or an unreadable file too,
\* process_xbrl_file and process_xbrl_file_with_report_info return to the
\* caller and never let an exception escape.
C20_NoExceptionEscapes == pc # "raised"

\* C20, amended: process_xbrl_file_with_report_info never lets an exception
\* escape and returns an empty result for a missing or an unreadable file;
\* process_xbrl_file does so for an unreadable file, raises
\* FileNotFoundError for a path with no file and passes on an exception of
\* the steps between extraction and serialization.
C20_OnlyFileNotFoundEscapes ==
    /\ pc = "raised" =>
          /\ EntryPoint = "process_xbrl_file"
          /\ \/ xbrl.file = "missing"
             \/ LabelsNotStr(Concat(all_financial_data))
    /\ EntryPoint = "process_xbrl_file_with_report_info" => pc # "raised"
    /\ (EntryPoint = "process_xbrl_file" /\ xbrl.file = "missing") =>
          pc \in {"start", "raised"}
    /\ (xbrl.file # "ok" /\ pc \notin {"start", "raised"}) =>
          /\ pc = "done"
          /\ all_financial_data = <<>>
          /\ df_copy = <<>>

\* C20 witness: process_xbrl_file_with_report_info has returned from a call
\* with a path that has no file
C20_Witness ==
    /\ pc = "done"
    /\ xbrl.file = "missing"
    /\ EntryPoint = "process_xbrl_file_with_report_info"


(***************************************************************************)
(* The value returned to the caller (lines 1201-1207 and 1287-1292).       *)
(***************************************************************************)
\* extraction gave no row of either statement
NoDataProduced ==
    /\ pc \notin {"start", "raised"}
    /\ IsEmpty(balance_sheet_df)
    /\ IsEmpty(income_statement_df)

\* C21, as claimed: a filing whose matrix is unreadable or empty for both
\* report types produces no output, and the value returned for it differs
\* from the value returned when processing ended in the handler of an
\* internal error.
C21_NoDataDistinctFromError ==
    /\ NoDataProduced => (pc = "done" /\ generated_files = <<>> /\ df_copy = <<>>)
    /\ pc = "failed" => generated_files # <<>>

\* C21, amended: such a filing produces no output and the caller gets an
\* empty list; process_xbrl_file_with_report_info returns the same empty
\* list from the handler of an internal error, and only process_xbrl_file,
\* which passes the exception on, tells the two outcomes apart.
C21_NoDataAndErrorBothEmpty ==
    /\ NoDataProduced => (pc = "done" /\ generated_files = <<>> /\ df_copy = <<>>)
    /\ pc = "failed" =>
          /\ EntryPoint = "process_xbrl_file_with_report_info"
          /\ ~NoDataProduced
          /\ generated_files = <<>>
          /\ df_copy = <<>>
    /\ (pc = "raised" /\ xbrl.file = "ok") =>
          /\ EntryPoint = "process_xbrl_file"
          /\ ~IsEmpty(balance_sheet_df)
    /\ pc \in {"improved", "sorted", "saved"} =>
          \E k \in 1..Len(Concat(all_financial_data)) :
              Concat(all_financial_data)[k].label_ko # NullLabel

\* C21 witness: a readable filing with no row of either statement has
\* returned the empty list
C21_Witness ==
    /\ pc = "done"
    /\ xbrl.file = "ok"
    /\ IsEmpty(xbrl.bs) /\ IsEmpty(xbrl.cis)
    /\ generated_files = <<>>

(***************************************************************************)
(* Properties of the batch loop (xbrl_batch_processor.py, lines 454-502).  *)
(***************************************************************************)
\* the positions of the files of the input
FilePositions ==
    {p \in (1..Len(all_xbrl_files)) \X (1..MaxFiles + 1) :
        p[2] <= Len(all_xbrl_files[p[1]])}

\* p comes before q in the order of the loops
PositionBefore(p, q) == p[1] < q[1] \/ (p[1] = q[1] /\ p[2] < q[2])

\* the attempts made for the file at p
AttemptsAt(p) ==
    {k \in 1..Len(attempted) :
        attempted[k].company = p[1] /\ attempted[k].file = p[2]}

\* the paths of the attempts that ended in the handler, in their order
RECURSIVE PathsOfExceptions(_)
PathsOfExceptions(attempts) ==
    IF Len(attempts) = 0 THEN <<>>
    ELSE LET a == Head(attempts)
         IN  (IF a.outcome \in {"raises", "move_fails"}
              THEN <<all_xbrl_files[a.company][a.file].file_path>>
              ELSE <<>>) \o PathsOfExceptions(Tail(attempts))

\* C22: in process_all_xbrl_files_internal neither an exception nor an
\* empty result of one filing keeps a later filing from being processed:
\* every file before the position of the loops has been attempted exactly
\* once, in the order of the input, so that at the end every file of the
\* input has been, and every exception has been appended to stats.errors.
C22_EveryFileAttemptedOnce ==
    /\ \A p \in FilePositions :
          Cardinality(AttemptsAt(p)) =
              IF PositionBefore(p, <<company_no, file_no>>) THEN 1 ELSE 0
    /\ \A k, l \in 1..Len(attempted) :
          k < l => PositionBefore(<<attempted[k].company, attempted[k].file>>,
                                  <<attempted[l].company, attempted[l].file>>)
    /\ stats.errors = PathsOfExceptions(attempted)
    /\ company_no <= Len(all_xbrl_files) + 1

\* C22 witness: the batch has ended after an exception and an empty result
\* were each followed by a file that was generated
C22_Witness ==
    /\ company_no > Len(all_xbrl_files)
    /\ \E k, l, m \in 1..Len(attempted) :
          /\ k < m /\ l < m
          /\ attempted[k].outcome = "raises"
          /\ attempted[l].outcome = "empty"
          /\ attempted[m].outcome = "generated"
    /\ Len(stats.errors) = 1

NameResolved(mapping, corp_list, corp_code) ==
    ResolveName(mapping, corp_list, corp_code).corp_name

\* C28, as claimed: extraction leaves the directory as it is: over any
\* call, a lookup that misses included, every code the directory resolved
\* before the call resolves to the same name after it.
C28_NamesKeptByEveryCall ==
    [][corp_list_json' = corp_list_json =>
          \A corp_code \in DOMAIN corp_name_mapping :
              NameResolved(corp_name_mapping', corp_list_json', corp_code)
                  = corp_name_mapping[corp_code]]_vars

\* C28, amended: extraction never writes corp_list.json, and a call whose
\* lookup hits leaves self.corp_name_mapping as it is; a call whose lookup
\* misses replaces it by what corp_list.json holds at that time, so a code
\* resolved before resolves to the same name after when the file still
\* has its entry.
C28_NamesKeptUnlessReloaded ==
    [][corp_list_json' = corp_list_json =>
          /\ corp_list_json' = corp_list_json
          /\ resolved'.hit => corp_name_mapping' = corp_name_mapping
          /\ ~resolved'.hit =>
                corp_name_mapping' = load_corp_name_mapping(corp_list_json)
          /\ \A corp_code \in DOMAIN corp_name_mapping :
                (/\ corp_code \in DOMAIN load_corp_name_mapping(corp_list_json)
                 /\ load_corp_name_mapping(corp_list_json)[corp_code]
                       = corp_name_mapping[corp_code])
                => NameResolved(corp_name_mapping', corp_list_json', corp_code)
                       = corp_name_mapping[corp_code]]_vars

\* C28 witness: a lookup missed, and the reload replaced a directory that
\* held names by a file that has lost one of them
C28_Witness ==
    /\ resolved # <<>>
    /\ ~resolved.hit
    /\ resolved.corp_code = Code00126380
    /\ corp_name_mapping = load_corp_name_mapping(corp_list_json)
    /\ Code00171636 \notin DOMAIN corp_name_mapping
    /\ Key171636 \notin DOMAIN corp_name_mapping

(***************************************************************************)
(* Properties of the receipt date (lines 851-887).                         *)
(***************************************************************************)
\* the receipt_ymd the entry point hands to save_to_parquet
ReceiptPassed ==
    IF EntryPoint = "process_xbrl_file_with_report_info" THEN receipt_ymd
    ELSE <<>>

\* v has the form YYYY-MM-DD
IsDashedDate(v) ==
    /\ Len(v) = 10
    /\ v[5] = "-" /\ v[8] = "-"
    /\ AllDigits(SubSeq(v, 1, 4))
    /\ AllDigits(SubSeq(v, 6, 7))
    /\ AllDigits(SubSeq(v, 9, 10))

ExtensionOf(name) ==
    LET dots == {i \in 1..Len(name) : name[i] = "."}
    IN  IF dots = {} THEN <<>>
        ELSE SubSeq(name, CHOOSE i \in dots : \A j \in dots : j <= i, Len(name))

\* what precedes the last dot of a file name
StemOf(name) == SubSeq(name, 1, Len(name) - Len(ExtensionOf(name)))

\* C25: the output file is named FS_{entity_code}_{YYYYMM}.{ext} with the
\* target period YYYYMM of the period filter (the marker of the title
\* first, the reporting year and month otherwise), and the extension is
\* the one generate_output_filename gives for either source of the period.
C25_NameOfTargetPeriod ==
    (pc = "saved" /\ TargetOfInputs # <<>>) =>
        /\ Len(generated_files) = 1
        /\ StemOf(generated_files[1]) =
              <<"F", "S", "_">> \o ExtractCorpCode(xbrl.filename) \o <<"_">>
                  \o TargetOfInputs
        /\ ExtensionOf(generated_files[1])
              = ExtensionOf(generate_output_filename(metadata, TitleWithMarker))
        /\ ExtensionOf(generated_files[1])
              = ExtensionOf(generate_output_filename(metadata, <<>>))

\* C30: the name generate_output_filename gives a filing with an entity
\* code of 8 digits and a period of 6 is accepted by
\* S3Uploader.extract_partition_info, which recovers the code, the year
\* and the month, whether the period comes from the title or from the
\* reporting year and month.
C30_UploaderAcceptsName ==
    (pc = "saved" /\ TargetOfInputs # <<>>) =>
        LET info == extract_partition_info(generated_files[1])
        IN  /\ info.matched
            /\ info.corp_code = ExtractCorpCode(xbrl.filename)
            /\ info.year \o info.month = TargetOfInputs

(***************************************************************************)
(* Properties of step 3 of the normalization (lines 1044-1062).            *)
(***************************************************************************)
\* the records of ImproveInput that the normalization keeps, in their order
KeptInput ==
    SelectSeq(ImproveInput,
              LAMBDA r : ~(r.report_type = "BS" /\ r.label_ko = EquityAndLiabilitiesTotal))

\* r becomes, by steps 1 and 2, a record of the section with an empty class2
IsTotalOf(r, overview, total) ==
    /\ r.report_type = "BS"
    /\ r.class1 \in {overview, total}
    /\ r.class2 \in {"", total}

\* the order_no step 3 gives the totals of a section of ImproveInput; none
\* when the section has no child
FirstChildOrdinal(overview, total) ==
    LET children == {r \in RecordsOf(ImproveInput) : IsChildOf(r, overview, total)}
    IN  IF children = {} THEN {}
        ELSE {CHOOSE n \in {r.order_no : r \in children} :
                  \A r \in children : n <= r.order_no}

\* C26: step 3 gives each liabilities-total and equity-total record with
\* an empty class2 the smallest order_no of the records of the statement
\* of position of its section that have a class2, leaves it its own
\* order_no when the section has none, and never changes the order_no of a
\* record with a class2.
C26_TotalTakesFirstChildOrdinal ==
    pc = "improved" =>
        /\ Len(combined_df) = Len(KeptInput)
        /\ \A k \in 1..Len(combined_df) :
              /\ \A section \in {<<LiabilitiesOverview, LiabilitiesTotal>>,
                                 <<EquityOverview, EquityTotal>>} :
                    IsTotalOf(KeptInput[k], section[1], section[2]) =>
                        /\ combined_df[k].class1 = section[2]
                        /\ combined_df[k].class2 = ""
                        /\ combined_df[k].order_no \in
                              IF FirstChildOrdinal(section[1], section[2]) # {}
                              THEN FirstChildOrdinal(section[1], section[2])
                              ELSE {KeptInput[k].order_no}
              /\ combined_df[k].class2 # "" =>
                    combined_df[k].order_no = KeptInput[k].order_no

\* C26 witness: a liabilities total stands below a child of its section
\* and has taken the child's order_no, while the equity total has no child
\* and keeps its own
C26_Witness ==
    /\ pc = "improved"
    /\ \E k, c \in 1..Len(combined_df) :
          /\ IsTotalOf(KeptInput[k], LiabilitiesOverview, LiabilitiesTotal)
          /\ IsChildOf(KeptInput[c], LiabilitiesOverview, LiabilitiesTotal)
          /\ KeptInput[c].order_no < KeptInput[k].order_no
          /\ combined_df[k].order_no = KeptInput[c].order_no

(***************************************************************************)
(* The place of the totals in the final order (lines 1050-1062 and         *)
(* 1265-1266).                                                             *)
(***************************************************************************)
\* the positions of combined_df that hold a child of the section
ChildPositions(total) ==
    {j \in 1..Len(combined_df) :
        /\ combined_df[j].report_type = "BS"
        /\ combined_df[j].class1 = total
        /\ combined_df[j].class2 # ""}

\* combined_df[i] is a record of the section's total with an empty class2
IsTotalAt(i, total) ==
    /\ combined_df[i].report_type = "BS"
    /\ combined_df[i].class1 = total
    /\ combined_df[i].class2 = ""

\* C27: after the normalization and the final sort by report type and
\* order_no, each liabilities-total and equity-total record with an empty
\* class2 stands immediately before the first child of its section (only
\* records of the same total between them), never after it.
C27_TotalBeforeFirstChild ==
    pc = "sorted" =>
        \A total \in {LiabilitiesTotal, EquityTotal} :
            \A i \in 1..Len(combined_df) :
                (IsTotalAt(i, total) /\ ChildPositions(total) # {}) =>
                    LET first == CHOOSE j \in ChildPositions(total) :
                                     \A m \in ChildPositions(total) : j <= m
                    IN  /\ i < first
                        /\ \A m \in (i + 1)..(first - 1) : IsTotalAt(m, total)

(***************************************************************************)
(* Properties of the receipt-date mapping (lines 91-152).                  *)
(***************************************************************************)
\* the last non-empty date among the registrations that satisfy Same, the
\* empty string when there is none
LastDate(calls, Same(_)) ==
    LET ks == {k \in 1..Len(calls) : Same(calls[k].path) /\ calls[k].rcept_dt # <<>>}
    IN  IF ks = {} THEN <<>>
        ELSE calls[CHOOSE k \in ks : \A j \in ks : j <= k].rcept_dt

\* the registrations made before the last lookup
RegisteredBeforeLookup == SubSeq(registered, 1, lookup.calls)

\* C29, as claimed: the date looked up for a filing path is the last
\* non-empty date registered for that same path, whatever was registered
\* for other paths.
C29_LastDateOfSamePath ==
    lookup # <<>> =>
        lookup.value = LastDate(RegisteredBeforeLookup, LAMBDA p : p = lookup.path)

\* C29, amended: the date looked up for a filing path is the last
\* non-empty date registered for a path with the same file name; paths
\* with another file name never change it, paths with the same file name
\* share it.
C29_LastDateOfSameFileName ==
    lookup # <<>> =>
        lookup.value = LastDate(RegisteredBeforeLookup,
                                LAMBDA p : PathName(p) = PathName(lookup.path))

\* C29 witness: a path is looked up after a date was registered for it,
\* then an empty date for it and a date for a path with another file name
C29_Witness ==
    /\ lookup # <<>>
    /\ lookup.calls = 3
    /\ registered[1] = [path |-> lookup.path, rcept_dt |-> D20250813]
    /\ registered[2] = [path |-> lookup.path, rcept_dt |-> <<>>]
    /\ PathName(registered[3].path) # PathName(lookup.path)
    /\ registered[3].rcept_dt = D20250701
    /\ lookup.value = D20250813
====
